---- MODULE Spec2Model ----
(***************************************************************************)
(* LockNote / bubliboo: the pairing protocol (services/auth.ts), the       *)
(* message engine (services/messages, lines 270-419 of theme.ts), and the  *)
(* live pixel canvas (screens/SayangScreen.tsx, services/liveCanvas.ts).   *)
(*                                                                         *)
(* Remote store nodes are modelled as functions; a JS null / absent node   *)
(* is the string None.  Every await of the source is a step boundary: the  *)
(* remote reads and writes of one call are separate actions that other     *)
(* devices' steps may interleave with.                                     *)
(***************************************************************************)
EXTENDS Integers, Sequences, FiniteSets, TLC

None == "none"

\* ------------------------------------------------------------------ bounds
\* Budget of pairing calls (getOrCreateUser, createPairCode, joinWithCode)
\* started in a run.
MaxCalls == 6
\* Budget of sendMessage calls in a run.
MaxSends == 2

\* Codes one device creates, each with its watcher.
MaxWatch == 2
\* Side of the pixel grid (24 in SayangScreen, shortened here), and how
\* many cells are painted in the grids floodFill is run on.
GRID == 2
MaxPainted == 2

\* Touch samples (onBegin and onUpdate events) over both devices.
MaxTouches == 2

\* How many snapshots a commit keeps before appending its own: slice(-19)
\* in applyChanges and pan.onEnd, shortened here, so that the undo stack
\* holds at most UNDO_KEEP + 1 snapshots (20 in the source).
UNDO_KEEP == 1

\* Taps, and presses of the undo button, in the runs that fill the undo stack.
MaxStrokes == 3

\* Confirmed clears, and presses of the undo button, in the runs with Clear.
MaxClears == 1

\* Devices; a device's locally generated user id is its name here.
Users == {"A", "B", "C"}
\* The display name each user enters.
NameOf == [u \in Users |-> IF u = "A" THEN "ann" ELSE IF u = "B" THEN "bea" ELSE "cid"]
Names == {NameOf[u] : u \in Users}
\* Codes generatePairCode may return (shortened to two characters of its
\* alphabet), and what a joiner may type: a code, or one in lower case.
Codes == {<<"Q", "7">>, <<"K", "2">>}
RawCodes == Codes \cup {<<"q", "7">>}
\* Keys that may exist under pairCodes/.
CodeKeys == Codes \cup RawCodes

\* Mutant: the code is looked up as typed.
ToUpperCaseOmitted(raw) == raw

\* String.prototype.toUpperCase on the modelled characters.
UpperChar(ch) == IF ch = "q" THEN "Q" ELSE IF ch = "k" THEN "K" ELSE ch
ToUpperCase(raw) == [i \in DOMAIN raw |-> UpperChar(raw[i])]

VARIABLES
  \* --- remote store (pairing)
  pairCodes,    \* pairCodes/{code}: [userId, userName], None fields when absent
  pairs,        \* pairs/{pairId}: function pairId -> [id, user1, user2, createdAt]
  users,        \* users/{userId}: [name, pairId, fcmToken]
  \* --- device-local storage and app context
  localName,    \* AsyncStorage locknote_user_name
  localPairId,  \* AsyncStorage locknote_pair_id
  currentUser,  \* AppContext currentUser: [name, pairId], name None when null
  \* --- calls in flight, one per device
  login,        \* getOrCreateUser: [pc, name, pairId]
  join,         \* joinWithCode: [pc, code, key, creator, createdAt, afterOk]
  result,       \* outcome of the device's last joinWithCode: [status, pairId]
  \* --- bookkeeping
  created,      \* how many times each code has been written by createPairCode
  nCalls        \* calls started so far

VARIABLES
  \* --- PairingScreen's watchers of users/{userId}/pairId, per device
  watch,        \* the onValue listeners watchForPairAccepted registered, in
                \* order: [live, seen, cb, fired]
  unsubRef      \* unsubscribeRef.current: the listener whose handle it holds, 0 for null

VARIABLES
  \* --- remote store (messages of the one pair)
  history,      \* messages/{pairId}/history: function key -> Message
  latest,       \* messages/{pairId}/latest: LatestMessage, NoLatest when absent
  \* --- device-local
  widgetCache,  \* AsyncStorage locknote_latest_message: WidgetData
  widget,       \* the WidgetData the device's widget surface was last handed
  send,         \* sendMessage in flight: [pc, key, content, type, timestamp]
  \* --- environment and bookkeeping
  now,          \* Date.now()
  nextKey,      \* keys push() has handed out
  archive,      \* every Message ever written to history
  sendFailed    \* some sendMessage was interrupted

VARIABLES
  \* --- floodFill, run step by step
  fpixels,      \* the pixels argument
  fill          \* the call: [pc, x, y, fillColor, targetColor, queue, visited, changes]

VARIABLES
  \* --- remote store (canvas of the one pair)
  remotePixels, \* liveCanvas/{pairId}/pixels
  lastActivity, \* liveCanvas/{pairId}/lastActivity
  \* --- SayangScreen, one per device
  mounted,      \* devices whose SayangScreen is mounted (and subscribed)
  pixels,       \* pixels state (pixelsRef follows it on every render)
  strokePrev,   \* strokePrevRef
  fillDone,     \* fillDoneRef
  lastKey,      \* lastKeyRef, None for ''
  undoStack,    \* undoStackRef
  pending,      \* pendingRef
  flushTimer,   \* flushRef: a timer is armed
  timers,       \* how many timers scheduleFlush has set that have yet to fire
  inStroke,     \* the pan gesture is between onBegin and onEnd
  clear,        \* the Clear button's onPress: "idle", "sent" (awaiting
                \* clearCanvas) or "landed" (the await is about to resume)
  \* --- in flight
  inflight,     \* updatePixels batches sent and not yet landed, per device
  inbox,        \* subscription snapshots pushed and not yet delivered, per device
  \* --- bookkeeping
  strokeBase,   \* the device's pixels when its last stroke began
  paints,       \* how many changes of that stroke covered each cell
  pushed,       \* a snapshot was delivered to the device during that stroke
  bases,        \* per snapshot of undoStack: the pixels when its stroke began, and
                \* whether no snapshot has been delivered since
  nUndos,       \* presses of the undo button so far
  nClears,      \* confirmed clears so far
  nTouches      \* touch samples so far

VARIABLES
  \* --- HomeScreen, one per device, and the mood it writes
  mood,         \* users/{userId}/mood, None when absent
  myMood,       \* myMood state
  moodCall,     \* emojis of handleMoodTap's pending setMood calls, in order
  nudgeSent,    \* nudgeSent state
  nudgeCall,    \* how many of handleNudge's sendNudge calls are pending
  latestSeen,   \* the LatestMessage the subscription last handed to the screen
  lastMsgTs,    \* lastMsgTsRef, the timestamp of the note the banner last showed
  msgs,         \* the list subscribeToHistory last handed to HistoryScreen
  \* --- device A's subscriptions to users/A/mood, one id per subscribeMood call
  listeners,    \* the calls whose onValue callback is registered on the ref
  handles,      \* the calls whose unsubscribe handle has not been invoked
  heard,        \* what each call's callback was last handed
  \* --- what the device has shown its user
  alerts        \* titles Alert.alert was called with

pairVars == <<pairCodes, pairs, users, localName, localPairId, currentUser,
              login, join, result, created, nCalls>>
msgVars == <<history, latest, widgetCache, send, now, nextKey, archive, sendFailed, widget>>

fillVars == <<fpixels, fill>>
canvasVars == <<remotePixels, mounted, pixels, strokePrev, fillDone, lastKey, undoStack, pending,
                flushTimer, timers, inStroke, inflight, inbox, strokeBase, paints, pushed, bases, nUndos,
                nTouches, lastActivity, clear, nClears>>

watchVars == <<watch, unsubRef>>
homeVars == <<mood, myMood, moodCall, nudgeSent, nudgeCall>>
bannerVars == <<latestSeen, lastMsgTs, msgs>>
listenVars == <<listeners, handles, heard>>

vars == <<pairVars, msgVars, fillVars, canvasVars, watchVars, homeVars, bannerVars, listenVars, alerts>>

\* What the actions of one part leave alone.
notPair == <<msgVars, fillVars, canvasVars, watchVars, homeVars, bannerVars, listenVars, alerts>>
notMsg == <<pairVars, fillVars, canvasVars, watchVars, homeVars, bannerVars, listenVars>>
notFill == <<pairVars, msgVars, canvasVars, watchVars, homeVars, bannerVars, listenVars, alerts>>
notCanvas == <<pairVars, msgVars, fillVars, watchVars, homeVars, bannerVars, listenVars, alerts>>
notHome == <<pairVars, msgVars, fillVars, canvasVars, watchVars, bannerVars, listenVars>>
notListen == <<pairVars, msgVars, fillVars, canvasVars, watchVars, bannerVars>>

\* ------------------------------------------------------------ pairing
NoCode == [userId |-> None, userName |-> None]
NoUser == [name |-> None, pairId |-> None, fcmToken |-> None]
NoCtx == [name |-> None, pairId |-> None]
IdleLogin == [pc |-> "idle", name |-> None, pairId |-> None]
IdleJoin == [pc |-> "idle", code |-> <<>>, key |-> <<>>, creator |-> None,
             createdAt |-> 0, afterOk |-> FALSE]
NoResult == [status |-> None, pairId |-> None]

\* `${codeData.userId}_${joiningUserId}`
PairIdOf(creator, joiner) == creator \o "_" \o joiner

Idle(u) == login[u].pc = "idle" /\ join[u].pc = "idle"

\* Date.now() where joinWithCode builds the record of pairId: only its
\* order with the createdAt already stored there matters, and the call reads
\* a later time than the earlier call that wrote the record.
DateNow(pairId) == IF pairId \in DOMAIN pairs THEN pairs[pairId].createdAt + 1 ELSE 1

\* AppNavigator shows PairingScreen only while currentUser has no pairId.
OnPairingScreen(u) == currentUser[u].pairId = None

RECURSIVE SumOver(_, _)
SumOver(f, S) ==
  IF S = {} THEN 0
  ELSE LET x == CHOOSE y \in S : TRUE IN f[x] + SumOver(f, S \ {x})

PairInit ==
  /\ pairCodes = [c \in CodeKeys |-> NoCode]
  /\ pairs = <<>>
  /\ users = [u \in Users |-> NoUser]
  /\ localName = [u \in Users |-> None]
  /\ localPairId = [u \in Users |-> None]
  /\ currentUser = [u \in Users |-> NoCtx]
  /\ login = [u \in Users |-> IdleLogin]
  /\ join = [u \in Users |-> IdleJoin]
  /\ result = [u \in Users |-> NoResult]
  /\ created = [c \in CodeKeys |-> 0]
  /\ nCalls = 0
  /\ watch = [u \in Users |-> <<>>]
  /\ unsubRef = [u \in Users |-> 0]

\* getOrCreateUser, up to its remote write: reads the stored pair id and
\* stores the name locally (handleNameSubmit, PairingScreen 'name' step).
LoginLocal(u, n) ==
  /\ Idle(u) /\ OnPairingScreen(u)
  /\ nCalls < MaxCalls
  /\ nCalls' = nCalls + 1
  /\ localName' = [localName EXCEPT ![u] = n]
  /\ login' = [login EXCEPT ![u] = [pc |-> "remote", name |-> n,
                                    pairId |-> localPairId[u]]]
  /\ UNCHANGED notPair
  /\ UNCHANGED <<pairCodes, pairs, users, localPairId, currentUser, join,
                 result, created>>

\* getOrCreateUser's set(users/{userId}) and login's setCurrentUser. The set
\* replaces the whole node: the children it does not list (mood) are removed.
LoginRemote(u) ==
  /\ login[u].pc = "remote"
  /\ users' = [users EXCEPT ![u] = [name |-> login[u].name,
                                    pairId |-> login[u].pairId,
                                    fcmToken |-> None]]
  /\ mood' = IF u \in DOMAIN mood THEN [mood EXCEPT ![u] = None] ELSE mood
  /\ currentUser' = [currentUser EXCEPT ![u] = [name |-> login[u].name,
                                                pairId |-> login[u].pairId]]
  /\ login' = [login EXCEPT ![u] = IdleLogin]
  /\ UNCHANGED <<msgVars, fillVars, canvasVars, watchVars, bannerVars, listenVars, alerts>>
  /\ UNCHANGED <<myMood, moodCall, nudgeSent, nudgeCall>>
  /\ UNCHANGED <<pairCodes, pairs, localName, localPairId, join, result,
                 created, nCalls>>

\* The push tokens a device can be given.
Tokens == {"tok"}

\* setupNotifications at app start: with a user id already in local storage,
\* saveFcmToken sets users/{userId}/fcmToken.
SaveFcmToken(u, token) ==
  /\ localName[u] # None
  /\ users[u].fcmToken # token
  /\ users' = [users EXCEPT ![u].fcmToken = token]
  /\ UNCHANGED notPair
  /\ UNCHANGED <<pairCodes, pairs, localName, localPairId, currentUser, login,
                 join, result, created, nCalls>>

\* createPairCode: clearUserPairCode is an empty function; the code is
\* random, so it may equal a live code (no existence check).
CreatePairCode(u, code) ==
  /\ Idle(u) /\ OnPairingScreen(u)
  /\ currentUser[u].name # None
  /\ nCalls < MaxCalls
  /\ nCalls' = nCalls + 1
  /\ created' = [created EXCEPT ![code] = @ + 1]
  /\ pairCodes' = [pairCodes EXCEPT ![code] = [userId |-> u,
                                               userName |-> currentUser[u].name]]
  /\ UNCHANGED notPair
  /\ UNCHANGED <<pairs, users, localName, localPairId, currentUser, login,
                 join, result>>

\* Some finished joinWithCode on this key returned a pair id.
ReturnedOk(key) ==
  \E v \in Users : result[v].status = "ok" /\ join[v].pc = "idle" /\ join[v].key = key

\* Mutant: the self-pair check runs after the pair record is written.
JoinReadLateCheck(u, raw) ==
  LET key == ToUpperCase(raw)
      codeData == pairCodes[key]
      call == [pc |-> "idle", code |-> raw, key |-> key,
               creator |-> codeData.userId,
               createdAt |-> DateNow(PairIdOf(codeData.userId, u)),
               afterOk |-> ReturnedOk(key)]
      pairId == PairIdOf(codeData.userId, u)
  IN
  /\ Idle(u) /\ OnPairingScreen(u)
  /\ currentUser[u].name # None
  /\ nCalls < MaxCalls
  /\ nCalls' = nCalls + 1
  /\ IF codeData.userId = None
       THEN /\ result' = [result EXCEPT ![u] = [status |-> "CodeNotFound", pairId |-> None]]
            /\ join' = [join EXCEPT ![u] = call]
            /\ pairs' = pairs
       ELSE IF codeData.userId = u
       THEN /\ result' = [result EXCEPT ![u] = [status |-> "SelfPairAttempt", pairId |-> None]]
            /\ join' = [join EXCEPT ![u] = call]
            /\ pairs' = (pairId :> [id |-> pairId, user1 |-> u, user2 |-> u,
                                    createdAt |-> call.createdAt]) @@ pairs
       ELSE /\ result' = [result EXCEPT ![u] = [status |-> "pending", pairId |-> None]]
            /\ join' = [join EXCEPT ![u] = [call EXCEPT !.pc = "pair"]]
            /\ pairs' = pairs
  /\ UNCHANGED notPair
  /\ UNCHANGED <<pairCodes, users, localName, localPairId, currentUser,
                 login, created>>

\* joinWithCode refusing a code whose pair record has been written already.
JoinReadRefusesReplay(u, raw) ==
  LET key == ToUpperCase(raw)
      codeData == pairCodes[key]
      call == [pc |-> "idle", code |-> raw, key |-> key,
               creator |-> codeData.userId,
               createdAt |-> DateNow(PairIdOf(codeData.userId, u)),
               afterOk |-> ReturnedOk(key)]
  IN
  /\ Idle(u) /\ OnPairingScreen(u)
  /\ currentUser[u].name # None
  /\ nCalls < MaxCalls
  /\ nCalls' = nCalls + 1
  /\ IF codeData.userId = None \/ PairIdOf(codeData.userId, u) \in DOMAIN pairs
       THEN /\ result' = [result EXCEPT ![u] = [status |-> "CodeNotFound", pairId |-> None]]
            /\ join' = [join EXCEPT ![u] = call]
       ELSE IF codeData.userId = u
       THEN /\ result' = [result EXCEPT ![u] = [status |-> "SelfPairAttempt", pairId |-> None]]
            /\ join' = [join EXCEPT ![u] = call]
       ELSE /\ result' = [result EXCEPT ![u] = [status |-> "pending", pairId |-> None]]
            /\ join' = [join EXCEPT ![u] = [call EXCEPT !.pc = "pair"]]
  /\ UNCHANGED notPair
  /\ UNCHANGED <<pairCodes, pairs, users, localName, localPairId, currentUser,
                 login, created>>

\* joinWithCode up to the first write: get(pairCodes/{CODE}) and the two
\* throws.
JoinRead(u, raw) ==
  LET key == ToUpperCase(raw)
      codeData == pairCodes[key]
      call == [pc |-> "idle", code |-> raw, key |-> key,
               creator |-> codeData.userId,
               createdAt |-> DateNow(PairIdOf(codeData.userId, u)),
               afterOk |-> ReturnedOk(key)]
  IN
  /\ Idle(u) /\ OnPairingScreen(u)
  /\ currentUser[u].name # None
  /\ nCalls < MaxCalls
  /\ nCalls' = nCalls + 1
  /\ IF codeData.userId = None
       THEN /\ result' = [result EXCEPT ![u] = [status |-> "CodeNotFound", pairId |-> None]]
            /\ join' = [join EXCEPT ![u] = call]
       ELSE IF codeData.userId = u
       THEN /\ result' = [result EXCEPT ![u] = [status |-> "SelfPairAttempt", pairId |-> None]]
            /\ join' = [join EXCEPT ![u] = call]
       ELSE /\ result' = [result EXCEPT ![u] = [status |-> "pending", pairId |-> None]]
            /\ join' = [join EXCEPT ![u] = [call EXCEPT !.pc = "pair"]]
  /\ UNCHANGED notPair
  /\ UNCHANGED <<pairCodes, pairs, users, localName, localPairId, currentUser,
                 login, created>>

\* Mutant: the pair record is not written before the pointers.
JoinPairSkipped(u) ==
  /\ join[u].pc = "pair"
  /\ join' = [join EXCEPT ![u].pc = "creator"]
  /\ UNCHANGED notPair
  /\ UNCHANGED <<pairCodes, pairs, users, localName, localPairId, currentUser, login,
                 result, created, nCalls>>

\* set(pairs/{pairId}, pair)
JoinPair(u) ==
  LET pairId == PairIdOf(join[u].creator, u) IN
  /\ join[u].pc = "pair"
  /\ pairs' = (pairId :> [id |-> pairId, user1 |-> join[u].creator, user2 |-> u,
                          createdAt |-> join[u].createdAt]) @@ pairs
  /\ join' = [join EXCEPT ![u].pc = "creator"]
  /\ UNCHANGED notPair
  /\ UNCHANGED <<pairCodes, users, localName, localPairId, currentUser, login,
                 result, created, nCalls>>

\* Mutant: the creator's pointer is written to the joiner's record.
JoinCreatorWritesJoiner(u) ==
  /\ join[u].pc = "creator"
  /\ users' = [users EXCEPT ![u].pairId = PairIdOf(join[u].creator, u)]
  /\ join' = [join EXCEPT ![u].pc = "joiner"]
  /\ UNCHANGED notPair
  /\ UNCHANGED <<pairCodes, pairs, localName, localPairId, currentUser, login,
                 result, created, nCalls>>

\* set(users/{creator}/pairId, pairId)
JoinCreator(u) ==
  /\ join[u].pc = "creator"
  /\ users' = [users EXCEPT ![join[u].creator].pairId = PairIdOf(join[u].creator, u)]
  /\ join' = [join EXCEPT ![u].pc = "joiner"]
  /\ UNCHANGED notPair
  /\ UNCHANGED <<pairCodes, pairs, localName, localPairId, currentUser, login,
                 result, created, nCalls>>

\* set(users/{joiner}/pairId, pairId)
JoinJoiner(u) ==
  /\ join[u].pc = "joiner"
  /\ users' = [users EXCEPT ![u].pairId = PairIdOf(join[u].creator, u)]
  /\ join' = [join EXCEPT ![u].pc = "remove"]
  /\ UNCHANGED notPair
  /\ UNCHANGED <<pairCodes, pairs, localName, localPairId, currentUser, login,
                 result, created, nCalls>>

\* Mutant: the consumed code is left in place.
JoinRemoveSkipped(u) ==
  /\ join[u].pc = "remove"
  /\ join' = [join EXCEPT ![u].pc = "local"]
  /\ UNCHANGED notPair
  /\ UNCHANGED <<pairCodes, pairs, users, localName, localPairId, currentUser,
                 login, result, created, nCalls>>

\* remove(pairCodes/{CODE})
JoinRemove(u) ==
  /\ join[u].pc = "remove"
  /\ pairCodes' = [pairCodes EXCEPT ![join[u].key] = NoCode]
  /\ join' = [join EXCEPT ![u].pc = "local"]
  /\ UNCHANGED notPair
  /\ UNCHANGED <<pairs, users, localName, localPairId, currentUser, login,
                 result, created, nCalls>>

\* AsyncStorage.setItem(PAIR_ID) and the return; handleJoinCode's
\* setPairId(newPairId) then stores the same id and updates currentUser.
JoinLocal(u) ==
  LET pairId == PairIdOf(join[u].creator, u) IN
  /\ join[u].pc = "local"
  /\ localPairId' = [localPairId EXCEPT ![u] = pairId]
  /\ currentUser' = [currentUser EXCEPT ![u].pairId = pairId]
  /\ result' = [result EXCEPT ![u] = [status |-> "ok", pairId |-> pairId]]
  /\ join' = [join EXCEPT ![u].pc = "idle"]
  /\ UNCHANGED notPair
  /\ UNCHANGED <<pairCodes, pairs, users, localName, login, created, nCalls>>

\* The call is interrupted between two awaits (a rejected write, or the
\* process dies): the remaining writes never happen.
JoinCrash(u) ==
  /\ join[u].pc \in {"pair", "creator", "joiner", "remove", "local"}
  /\ result' = [result EXCEPT ![u] = [status |-> "interrupted", pairId |-> None]]
  /\ join' = [join EXCEPT ![u].pc = "idle"]
  /\ UNCHANGED notPair
  /\ UNCHANGED <<pairCodes, pairs, users, localName, localPairId, currentUser,
                 login, created, nCalls>>

\* Mutant: the partner is always taken to be user2.
GetPartnerProfileUser2(pairId, myUserId) ==
  IF pairId \notin DOMAIN pairs
    THEN [id |-> None, name |-> None, pairId |-> None, fcmToken |-> None]
    ELSE LET partnerId == pairs[pairId].user2
         IN [id |-> partnerId, name |-> users[partnerId].name,
             pairId |-> users[partnerId].pairId,
             fcmToken |-> users[partnerId].fcmToken]

\* getPartnerProfile(pairId, myUserId): null is [id |-> None, ...].
GetPartnerProfile(pairId, myUserId) ==
  IF pairId \notin DOMAIN pairs
    THEN [id |-> None, name |-> None, pairId |-> None, fcmToken |-> None]
    ELSE LET pair == pairs[pairId]
             partnerId == IF pair.user1 = myUserId THEN pair.user2 ELSE pair.user1
         IN IF users[partnerId] = NoUser
              THEN [id |-> None, name |-> None, pairId |-> None, fcmToken |-> None]
              ELSE [id |-> partnerId, name |-> users[partnerId].name,
                    pairId |-> users[partnerId].pairId,
                    fcmToken |-> users[partnerId].fcmToken]

\* A listener that has not been handed a snapshot yet.
Unseen == "unseen"
NewWatch == [live |-> TRUE, seen |-> Unseen, cb |-> <<>>, fired |-> 0]

\* handleCreateCode: createPairCode, then watchForPairAccepted registers a
\* listener on users/{userId}/pairId and its handle replaces whatever
\* unsubscribeRef held.
HandleCreateCode(u, code) ==
  /\ Idle(u) /\ OnPairingScreen(u)
  /\ currentUser[u].name # None
  /\ nCalls < MaxCalls
  /\ Len(watch[u]) < MaxWatch
  /\ nCalls' = nCalls + 1
  /\ created' = [created EXCEPT ![code] = @ + 1]
  /\ pairCodes' = [pairCodes EXCEPT ![code] = [userId |-> u,
                                               userName |-> currentUser[u].name]]
  /\ watch' = [watch EXCEPT ![u] = Append(@, NewWatch)]
  /\ unsubRef' = [unsubRef EXCEPT ![u] = Len(watch[u]) + 1]
  /\ UNCHANGED <<pairs, users, localName, localPairId, currentUser, login,
                 join, result>>
  /\ UNCHANGED <<msgVars, fillVars, canvasVars, homeVars, bannerVars, listenVars, alerts>>

\* onValue raises an event on the device: every live listener that has not
\* been handed the current value of users/{userId}/pairId is handed it, and
\* for a non-null value its callback starts (up to the await of
\* AsyncStorage.setItem).
WatchSnap(u) ==
  LET val == users[u].pairId
      due == {i \in DOMAIN watch[u] : watch[u][i].live /\ watch[u][i].seen # val}
  IN
  /\ due # {}
  /\ watch' = [watch EXCEPT ![u] =
                 [i \in DOMAIN @ |->
                    IF i \in due
                      THEN [@[i] EXCEPT !.seen = val,
                                        !.cb = IF val # None THEN Append(@, val) ELSE @]
                      ELSE @[i]]]
  /\ UNCHANGED unsubRef
  /\ UNCHANGED <<pairVars, msgVars, fillVars, canvasVars, homeVars, bannerVars, listenVars, alerts>>

\* A callback resumes: AsyncStorage.setItem(PAIR_ID), then onPaired, which
\* calls unsubscribeRef.current and setPairId.
WatchPaired(u, i) ==
  /\ i \in DOMAIN watch[u]
  /\ watch[u][i].cb # <<>>
  /\ LET pairId == Head(watch[u][i].cb)
         fired == [watch[u] EXCEPT ![i].cb = Tail(@), ![i].fired = @ + 1]
     IN /\ watch' = [watch EXCEPT ![u] =
                       IF unsubRef[u] = 0 THEN fired
                       ELSE [fired EXCEPT ![unsubRef[u]].live = FALSE]]
        /\ localPairId' = [localPairId EXCEPT ![u] = pairId]
        /\ currentUser' = [currentUser EXCEPT ![u].pairId = pairId]
  /\ UNCHANGED unsubRef
  /\ UNCHANGED <<pairCodes, pairs, users, localName, login, join, result, created, nCalls>>
  /\ UNCHANGED <<msgVars, fillVars, canvasVars, homeVars, bannerVars, listenVars, alerts>>

\* PairingScreen unmounts once currentUser has a pairId: the cleanup calls
\* unsubscribeRef.current.
Unmount(u) ==
  /\ ~OnPairingScreen(u)
  /\ unsubRef[u] # 0 /\ watch[u][unsubRef[u]].live
  /\ watch' = [watch EXCEPT ![u][unsubRef[u]].live = FALSE]
  /\ UNCHANGED unsubRef
  /\ UNCHANGED <<pairVars, msgVars, fillVars, canvasVars, homeVars, bannerVars, listenVars, alerts>>

\* The pairing screen of every device, with its watcher.
WatchNext ==
  \/ \E u \in Users : LoginLocal(u, NameOf[u])
  \/ \E u \in Users : LoginRemote(u)
  \/ \E u \in Users, code \in Codes : HandleCreateCode(u, code)
  \/ \E u \in Users, raw \in RawCodes : JoinRead(u, raw)
  \/ \E u \in Users : JoinPair(u)
  \/ \E u \in Users : JoinCreator(u)
  \/ \E u \in Users : JoinJoiner(u)
  \/ \E u \in Users : JoinRemove(u)
  \/ \E u \in Users : JoinLocal(u)
  \/ \E u \in Users : JoinCrash(u)
  \/ \E u \in Users : WatchSnap(u)
  \/ \E u \in Users, i \in 1..MaxWatch : WatchPaired(u, i)
  \/ \E u \in Users : Unmount(u)

PairStart ==
  \/ \E u \in Users : LoginLocal(u, NameOf[u])
  \/ \E u \in Users, code \in Codes : CreatePairCode(u, code)
  \/ \E u \in Users, raw \in RawCodes : JoinRead(u, raw)

PairStep ==
  \/ \E u \in Users : LoginRemote(u)
  \/ \E u \in Users : JoinPair(u)
  \/ \E u \in Users : JoinCreator(u)
  \/ \E u \in Users : JoinJoiner(u)
  \/ \E u \in Users : JoinRemove(u)
  \/ \E u \in Users : JoinLocal(u)
  \/ \E u \in Users : JoinCrash(u)

\* ------------------------------------------------------------ messages
\* The two members of the pair whose messages are modelled, and its id.
Members == {"A", "B"}
ThePair == PairIdOf("A", "B")
\* What a user may send: a text, or a serialised drawing.
Notes == {[content |-> "hi", type |-> "text"],
          [content |-> "[{d:M1,1}]", type |-> "drawing"]}

NoLatest == [content |-> None, type |-> None, authorId |-> None,
             authorName |-> None, timestamp |-> -1]
NoWidgetData == [message |-> None, fromName |-> None, type |-> None, timestamp |-> -1]
IdleSend == [pc |-> "idle", key |-> 0, content |-> None, type |-> None, timestamp |-> -1]

\* const latest: LatestMessage = { content, type, authorId, authorName, timestamp }
LatestOf(u) ==
  [content |-> send[u].content, type |-> send[u].type, authorId |-> u,
   authorName |-> NameOf[u], timestamp |-> send[u].timestamp]

\* const message: Message = { id, pairId, authorId, ..., read: false }
MessageOf(u) ==
  [id |-> send[u].key, pairId |-> ThePair, authorId |-> u, authorName |-> NameOf[u],
   content |-> send[u].content, type |-> send[u].type,
   timestamp |-> send[u].timestamp, read |-> FALSE]

MsgInit ==
  /\ history = <<>>
  /\ latest = NoLatest
  /\ widgetCache = [u \in Members |-> NoWidgetData]
  /\ send = [u \in Members |-> IdleSend]
  /\ now = 0
  /\ nextKey = 0
  /\ archive = {}
  /\ sendFailed = FALSE
  /\ widget = [u \in Members |-> NoWidgetData]

\* The clock advances. Only the order of the timestamps taken matters, so
\* it is not advanced further than the number of sends started.
Tick ==
  /\ now < nextKey
  /\ now' = now + 1
  /\ UNCHANGED <<notMsg, alerts, widget>>
  /\ UNCHANGED <<history, latest, widgetCache, send, nextKey, archive, sendFailed>>

\* Mutant: the projection is written before the history record.
SendStartProjectionFirst(u, note) ==
  /\ send[u].pc = "idle"
  /\ nextKey < MaxSends
  /\ nextKey' = nextKey + 1
  /\ send' = [send EXCEPT ![u] = [pc |-> "history", key |-> nextKey + 1,
                                  content |-> note.content, type |-> note.type,
                                  timestamp |-> now]]
  /\ latest' = [content |-> note.content, type |-> note.type, authorId |-> u,
                authorName |-> NameOf[u], timestamp |-> now]
  /\ UNCHANGED <<notMsg, alerts, widget>>
  /\ UNCHANGED <<history, widgetCache, now, archive, sendFailed>>

\* sendMessage up to the first await: Date.now(), push() and the Message.
SendStart(u, note) ==
  /\ send[u].pc = "idle"
  /\ nextKey < MaxSends
  /\ nextKey' = nextKey + 1
  /\ send' = [send EXCEPT ![u] = [pc |-> "history", key |-> nextKey + 1,
                                  content |-> note.content, type |-> note.type,
                                  timestamp |-> now]]
  /\ UNCHANGED <<notMsg, alerts, widget>>
  /\ UNCHANGED <<history, latest, widgetCache, now, archive, sendFailed>>

\* Mutant: the Message is set on the history node itself.
SendHistoryOnList(u) ==
  /\ send[u].pc = "history"
  /\ history' = (send[u].key :> MessageOf(u))
  /\ archive' = archive \cup {MessageOf(u)}
  /\ send' = [send EXCEPT ![u].pc = "latest"]
  /\ UNCHANGED <<notMsg, alerts, widget>>
  /\ UNCHANGED <<latest, widgetCache, now, nextKey, sendFailed>>

\* await set(newMsgRef, message)
SendHistory(u) ==
  /\ send[u].pc = "history"
  /\ history' = (send[u].key :> MessageOf(u)) @@ history
  /\ archive' = archive \cup {MessageOf(u)}
  /\ send' = [send EXCEPT ![u].pc = "latest"]
  /\ UNCHANGED <<notMsg, alerts, widget>>
  /\ UNCHANGED <<latest, widgetCache, now, nextKey, sendFailed>>

\* await set(messages/{pairId}/latest, latest)
SendLatest(u) ==
  /\ send[u].pc = "latest"
  /\ latest' = LatestOf(u)
  /\ send' = [send EXCEPT ![u].pc = "cache"]
  /\ UNCHANGED <<notMsg, alerts, widget>>
  /\ UNCHANGED <<history, widgetCache, now, nextKey, archive, sendFailed>>

\* Platform.OS of each device, and what a device's widget library does when
\* called: it works, its import fails, or its call rejects.
PlatformOS == [u \in Members |-> IF u = "A" THEN "ios" ELSE "android"]
Bridges == {"linked", "missing", "throws"}

\* The body of the try block of either helper: the dynamic import, then the
\* library call that hands the data to the widget surface.
CallBridge(bridge, data, shown) ==
  IF bridge = "linked" THEN [outcome |-> "returns", shown |-> data]
                       ELSE [outcome |-> "throws", shown |-> shown]

\* updateAndroidWidget: the platform guard, then the try block and its catch.
updateAndroidWidget(os, bridge, data, shown) ==
  IF os # "android" THEN [outcome |-> "returns", shown |-> shown]
  ELSE [CallBridge(bridge, data, shown) EXCEPT !.outcome = "returns"]

\* updateiOSWidget without its try and catch.
updateiOSWidgetNoCatch(os, bridge, data, shown) ==
  IF os # "ios" THEN [outcome |-> "returns", shown |-> shown]
  ELSE CallBridge(bridge, data, shown)

\* updateiOSWidget: the platform guard, then the try block and its catch.
updateiOSWidget(os, bridge, data, shown) ==
  IF os # "ios" THEN [outcome |-> "returns", shown |-> shown]
  ELSE [CallBridge(bridge, data, shown) EXCEPT !.outcome = "returns"]

\* AsyncStorage.setItem('locknote_latest_message'), then the two widget
\* helpers awaited in turn; the call returns, or throws to handleSend what
\* a helper threw.
SendCache(u) ==
  /\ send[u].pc = "cache"
  /\ widgetCache' = [widgetCache EXCEPT ![u] =
                       [message |-> send[u].content, fromName |-> NameOf[u],
                        type |-> send[u].type, timestamp |-> send[u].timestamp]]
  /\ send' = [send EXCEPT ![u] = IdleSend]
  /\ \E bridge \in Bridges :
       LET android == updateAndroidWidget(PlatformOS[u], bridge, widgetCache'[u], widget[u])
           ios == IF android.outcome = "throws" THEN android
                  ELSE updateiOSWidget(PlatformOS[u], bridge, widgetCache'[u], android.shown)
       IN /\ widget' = [widget EXCEPT ![u] = ios.shown]
          /\ sendFailed' = (sendFailed \/ ios.outcome = "throws")
          /\ alerts' = [alerts EXCEPT ![u] =
                          IF ios.outcome = "throws" THEN @ \cup {"Send failed"} ELSE @]
  /\ UNCHANGED notMsg
  /\ UNCHANGED <<history, latest, now, nextKey, archive>>

\* An awaited write rejects: the rest of the call never runs, and the
\* catch of handleSend, which awaits the call, shows 'Send failed'.
SendFail(u) ==
  /\ send[u].pc \in {"history", "latest", "cache"}
  /\ send' = [send EXCEPT ![u] = IdleSend]
  /\ sendFailed' = TRUE
  /\ alerts' = [alerts EXCEPT ![u] = @ \cup {"Send failed"}]
  /\ UNCHANGED <<notMsg, widget>>
  /\ UNCHANGED <<history, latest, widgetCache, now, nextKey, archive>>

MsgNext ==
  \/ Tick
  \/ \E u \in Members, note \in Notes : SendStart(u, note)
  \/ \E u \in Members : SendHistory(u)
  \/ \E u \in Members : SendLatest(u)
  \/ \E u \in Members : SendCache(u)
  \/ \E u \in Members : SendFail(u)

\* deleteMessage that also resets the projection when it shows the record.
DeleteMessageAndLatest(id) ==
  /\ history' = [k \in DOMAIN history \ {id} |-> history[k]]
  /\ latest' = IF id \in DOMAIN history /\ history[id].timestamp = latest.timestamp
                 THEN NoLatest ELSE latest
  /\ UNCHANGED <<notMsg, alerts, widget>>
  /\ UNCHANGED <<widgetCache, send, now, nextKey, archive, sendFailed>>

\* deleteMessage: remove(messages/{pairId}/history/{messageId}); removing a
\* record that is already gone changes nothing.
DeleteMessage(id) ==
  /\ history' = [k \in DOMAIN history \ {id} |-> history[k]]
  /\ UNCHANGED <<notMsg, alerts, widget>>
  /\ UNCHANGED <<latest, widgetCache, send, now, nextKey, archive, sendFailed>>

\* Sends, and deletions from the history screen of either device.
MsgDeleteNext ==
  \/ MsgNext
  \/ \E id \in 1..MaxSends : id \in DOMAIN history /\ DeleteMessage(id)

\* ---------------------------------------------------------- flood fill
\* A slice of PALETTE.
Palette == {"red", "blue"}
Cells == (0..(GRID - 1)) \X (0..(GRID - 1))

\* `${x}_${y}`
Key(x, y) == <<x, y>>
\* pixels[k] ?? null, on a sparse Record<string, string>
Get(grid, k) == IF k \in DOMAIN grid THEN grid[k] ELSE None

Range(seq) == {seq[i] : i \in DOMAIN seq}

\* Mutant: the neighbour to the left is not enqueued.
FillIterNoLeft(grid, targetColor, fillColor, st) ==
  LET x == Head(st.queue)[1]
      y == Head(st.queue)[2]
      k == Key(x, y)
      rest == Tail(st.queue)
  IN IF x < 0 \/ x >= GRID \/ y < 0 \/ y >= GRID THEN [st EXCEPT !.queue = rest]
     ELSE IF k \in Range(st.visited) THEN [st EXCEPT !.queue = rest]
     ELSE IF Get(grid, k) # targetColor THEN [st EXCEPT !.queue = rest]
     ELSE [queue |-> rest \o <<<<x + 1, y>>, <<x, y + 1>>, <<x, y - 1>>>>,
           visited |-> Append(st.visited, k),
           changes |-> (k :> fillColor) @@ st.changes]

\* Mutant: no visited set.
FillIterNoVisited(grid, targetColor, fillColor, st) ==
  LET x == Head(st.queue)[1]
      y == Head(st.queue)[2]
      k == Key(x, y)
      rest == Tail(st.queue)
  IN IF x < 0 \/ x >= GRID \/ y < 0 \/ y >= GRID THEN [st EXCEPT !.queue = rest]
     ELSE IF Get(grid, k) # targetColor THEN [st EXCEPT !.queue = rest]
     ELSE [queue |-> rest \o <<<<x + 1, y>>, <<x - 1, y>>, <<x, y + 1>>, <<x, y - 1>>>>,
           visited |-> Append(st.visited, k),
           changes |-> (k :> fillColor) @@ st.changes]

\* One iteration of floodFill's while loop. visited is kept as the list of
\* visited.add(k) calls in order, so that a repeated add would show.
FillIter(grid, targetColor, fillColor, st) ==
  LET x == Head(st.queue)[1]
      y == Head(st.queue)[2]
      k == Key(x, y)
      rest == Tail(st.queue)
  IN IF x < 0 \/ x >= GRID \/ y < 0 \/ y >= GRID THEN [st EXCEPT !.queue = rest]
     ELSE IF k \in Range(st.visited) THEN [st EXCEPT !.queue = rest]
     ELSE IF Get(grid, k) # targetColor THEN [st EXCEPT !.queue = rest]
     ELSE [queue |-> rest \o <<<<x + 1, y>>, <<x - 1, y>>, <<x, y + 1>>, <<x, y - 1>>>>,
           visited |-> Append(st.visited, k),
           changes |-> (k :> fillColor) @@ st.changes]

RECURSIVE FillLoop(_, _, _, _)
FillLoop(grid, targetColor, fillColor, st) ==
  IF st.queue = <<>> THEN st
  ELSE FillLoop(grid, targetColor, fillColor, FillIter(grid, targetColor, fillColor, st))

FillStart(startX, startY) ==
  [queue |-> <<<<startX, startY>>>>, visited |-> <<>>, changes |-> <<>>]

\* floodFill(pixels, startX, startY, fillColor) as the function the canvas calls.
floodFill(grid, startX, startY, fillColor) ==
  LET targetColor == Get(grid, Key(startX, startY))
  IN IF targetColor = fillColor THEN <<>>
     ELSE FillLoop(grid, targetColor, fillColor, FillStart(startX, startY)).changes

\* Sparse grids with at most MaxPainted painted cells.
Grids ==
  UNION {[S -> Palette] : S \in {T \in SUBSET Cells : Cardinality(T) <= MaxPainted}}

IdleFill == [pc |-> "idle", x |-> 0, y |-> 0, fillColor |-> None, targetColor |-> None,
             queue |-> <<>>, visited |-> <<>>, changes |-> <<>>]

\* No floodFill call on its own (the canvas calls the function).
FillOff == fpixels = <<>> /\ fill = IdleFill

FillInit == fpixels \in Grids /\ fill = IdleFill

\* floodFill's entry: the target colour and the early return.
FillCall(x, y, fillColor) ==
  LET targetColor == Get(fpixels, Key(x, y)) IN
  /\ fill.pc \in {"idle", "done"}
  /\ fill' = IF targetColor = fillColor
               THEN [IdleFill EXCEPT !.pc = "done", !.x = x, !.y = y,
                                     !.fillColor = fillColor, !.targetColor = targetColor]
               ELSE [pc |-> "loop", x |-> x, y |-> y, fillColor |-> fillColor,
                     targetColor |-> targetColor, queue |-> FillStart(x, y).queue,
                     visited |-> <<>>, changes |-> <<>>]
  /\ UNCHANGED fpixels
  /\ UNCHANGED notFill

\* One pass through the while loop.
FillStep ==
  /\ fill.pc = "loop" /\ fill.queue # <<>>
  /\ LET st == FillIter(fpixels, fill.targetColor, fill.fillColor,
                        [queue |-> fill.queue, visited |-> fill.visited,
                         changes |-> fill.changes])
     IN fill' = [fill EXCEPT !.queue = st.queue, !.visited = st.visited,
                             !.changes = st.changes]
  /\ UNCHANGED fpixels
  /\ UNCHANGED notFill

\* queue.length = 0: return changes.
FillReturn ==
  /\ fill.pc = "loop" /\ fill.queue = <<>>
  /\ fill' = [fill EXCEPT !.pc = "done"]
  /\ UNCHANGED fpixels
  /\ UNCHANGED notFill

FillNext ==
  \/ \E c \in Cells, fillColor \in Palette : FillCall(c[1], c[2], fillColor)
  \/ FillStep
  \/ FillReturn

\* --------------------------------------------------------------- canvas
\* Both devices show SayangScreen and are paired (currentUser.pairId is
\* ThePair). The tool, colour and brush pickers are inputs of each touch
\* sample: the refs follow the pickers, which can change between samples.
Tools == {"pencil", "fill", "eraser"}
\* 1 | 2 | 3 in the source; on a short grid 3 covers what 2 covers.
Brushes == {1, 2}
\* Math.floor(tx / cellSize), Math.floor(ty / cellSize): the cells, and one
\* sample off the grid.
Samples == Cells \cup {<<GRID, 0>>}

\* Object.assign(target, changes)
Assign(target, changes) == changes @@ target

\* The setPixels updater of applyChanges, and the store's update(): a null
\* value deletes the key, any other value sets it.
Merge(prev, changes) ==
  LET keep == (DOMAIN prev \ DOMAIN changes) \cup {k \in DOMAIN changes : changes[k] # None}
  IN [k \in keep |-> IF k \in DOMAIN changes THEN changes[k] ELSE prev[k]]

\* seq.slice(-(n + 1)): one snapshot too many survives.
SliceLastOneMore(seq, n) ==
  IF Len(seq) <= n + 1 THEN seq ELSE SubSeq(seq, Len(seq) - n, Len(seq))
\* seq.slice(-n)
SliceLast(seq, n) == IF Len(seq) <= n THEN seq ELSE SubSeq(seq, Len(seq) - n + 1, Len(seq))

\* No canvas screen is open and the pair has not drawn yet.
CanvasOff ==
  /\ remotePixels = <<>>
  /\ mounted = {}
  /\ pixels = [u \in Members |-> <<>>]
  /\ strokePrev = [u \in Members |-> <<>>]
  /\ fillDone = [u \in Members |-> FALSE]
  /\ lastKey = [u \in Members |-> None]
  /\ undoStack = [u \in Members |-> <<>>]
  /\ pending = [u \in Members |-> <<>>]
  /\ flushTimer = [u \in Members |-> FALSE]
  /\ timers = [u \in Members |-> 0]
  /\ inStroke = [u \in Members |-> FALSE]
  /\ inflight = [u \in Members |-> <<>>]
  /\ inbox = [u \in Members |-> <<>>]
  /\ strokeBase = [u \in Members |-> <<>>]
  /\ paints = [u \in Members |-> <<>>]
  /\ pushed = [u \in Members |-> FALSE]
  /\ bases = [u \in Members |-> <<>>]
  /\ nUndos = 0
  /\ nTouches = 0
  /\ lastActivity = None
  /\ clear = [u \in Members |-> "idle"]
  /\ nClears = 0

\* What earlier sessions left in liveCanvas/{pairId}/pixels.
SavedCanvases == {<<>>, (<<1, 0>> :> "blue")}

\* The devices of devs have just mounted SayangScreen on a pair whose
\* canvas holds saved: state and refs hold their initial values, and
\* subscribeLiveCanvas' onValue has its first snapshot on the way.
CanvasMounted(saved, devs) ==
  /\ remotePixels = saved
  /\ mounted = devs
  /\ pixels = [u \in Members |-> <<>>]
  /\ strokePrev = [u \in Members |-> <<>>]
  /\ fillDone = [u \in Members |-> FALSE]
  /\ lastKey = [u \in Members |-> None]
  /\ undoStack = [u \in Members |-> <<>>]
  /\ pending = [u \in Members |-> <<>>]
  /\ flushTimer = [u \in Members |-> FALSE]
  /\ timers = [u \in Members |-> 0]
  /\ inStroke = [u \in Members |-> FALSE]
  /\ inflight = [u \in Members |-> <<>>]
  /\ inbox = [u \in Members |-> IF u \in mounted THEN <<remotePixels>> ELSE <<>>]
  /\ strokeBase = [u \in Members |-> <<>>]
  /\ paints = [u \in Members |-> <<>>]
  /\ pushed = [u \in Members |-> FALSE]
  /\ bases = [u \in Members |-> <<>>]
  /\ nUndos = 0
  /\ nTouches = 0
  /\ lastActivity = None
  /\ clear = [u \in Members |-> "idle"]
  /\ nClears = 0

\* Device A has just mounted SayangScreen; the partner's screen is closed.
CanvasInit == \E saved \in SavedCanvases : CanvasMounted(saved, {"A"})

\* The local state handleTouch and applyChanges work on.
Local(u) ==
  [pixels |-> pixels[u], strokePrev |-> strokePrev[u], fillDone |-> fillDone[u],
   lastKey |-> lastKey[u], undoStack |-> undoStack[u], pending |-> pending[u],
   flushTimer |-> flushTimer[u], timers |-> timers[u], paints |-> paints[u]]

\* Mutant: scheduleFlush setting a timer whether or not one is armed.
scheduleFlushAgain(loc) == [loc EXCEPT !.flushTimer = TRUE, !.timers = @ + 1]

\* scheduleFlush, for a paired user: nothing when flushRef holds a timer,
\* else a new timer whose handle flushRef keeps.
scheduleFlush(loc) ==
  IF loc.flushTimer THEN loc ELSE [loc EXCEPT !.flushTimer = TRUE, !.timers = @ + 1]

\* Mutant: the buffer is replaced by the new changes instead of taking them in.
applyChangesReplacing(loc, changes, saveUndo) ==
  LET before == [k \in DOMAIN changes |-> Get(loc.pixels, k)]
  IN scheduleFlush(
       [loc EXCEPT
          !.undoStack = IF saveUndo /\ DOMAIN changes # {}
                          THEN Append(SliceLast(loc.undoStack, UNDO_KEEP), before)
                          ELSE loc.undoStack,
          !.pixels = Merge(loc.pixels, changes),
          !.pending = changes])

\* applyChanges(changes, saveUndo)
applyChanges(loc, changes, saveUndo) ==
  LET before == [k \in DOMAIN changes |-> Get(loc.pixels, k)]
  IN scheduleFlush(
       [loc EXCEPT
          !.undoStack = IF saveUndo /\ DOMAIN changes # {}
                          THEN Append(SliceLast(loc.undoStack, UNDO_KEEP), before)
                          ELSE loc.undoStack,
          !.pixels = Merge(loc.pixels, changes),
          !.pending = Assign(loc.pending, changes)])

\* Mutant: every touch records the pre-image again.
FirstTouchOverwrites(loc, changes) ==
  [k \in DOMAIN loc.strokePrev \cup DOMAIN changes |->
     IF k \in DOMAIN changes THEN Get(loc.pixels, k) ELSE loc.strokePrev[k]]

\* The pre-images handleTouch adds to strokePrevRef: only for keys not yet in it.
FirstTouch(loc, changes) ==
  [k \in DOMAIN loc.strokePrev \cup DOMAIN changes |->
     IF k \in DOMAIN loc.strokePrev THEN loc.strokePrev[k] ELSE Get(loc.pixels, k)]

\* What handleTouch does with a stroke segment's changes: the pre-images,
\* then applyChanges(changes, false).
Segment(loc, changes) ==
  [applyChanges([loc EXCEPT !.strokePrev = FirstTouch(loc, changes)], changes, FALSE)
     EXCEPT !.paints = [k \in DOMAIN loc.paints \cup DOMAIN changes |->
                          (IF k \in DOMAIN loc.paints THEN loc.paints[k] ELSE 0)
                          + (IF k \in DOMAIN changes THEN 1 ELSE 0)]]

\* The bs x bs footprint anchored at (gx, gy), clipped to the grid.
Footprint(gx, gy, bs) ==
  {c \in Cells : c[1] >= gx /\ c[1] < gx + bs /\ c[2] >= gy /\ c[2] < gy + bs}

\* handleTouch(tx, ty) with the refs' current values.
handleTouch(loc, gx, gy, tool, color, bs) ==
  IF gx < 0 \/ gx >= GRID \/ gy < 0 \/ gy >= GRID THEN loc
  ELSE IF tool = "fill" THEN
    IF loc.fillDone THEN loc
    ELSE LET changes == floodFill(loc.pixels, gx, gy, color)
             done == [loc EXCEPT !.fillDone = TRUE]
         IN IF DOMAIN changes # {} THEN Segment(done, changes) ELSE done
  ELSE IF Key(gx, gy) = loc.lastKey THEN loc
  ELSE LET newColor == IF tool = "eraser" THEN None ELSE color
           changes == [k \in Footprint(gx, gy, bs) |-> newColor]
       IN Segment([loc EXCEPT !.lastKey = Key(gx, gy)], changes)

\* Write a device's local state back.
SetLocal(u, loc) ==
  /\ pixels' = [pixels EXCEPT ![u] = loc.pixels]
  /\ strokePrev' = [strokePrev EXCEPT ![u] = loc.strokePrev]
  /\ fillDone' = [fillDone EXCEPT ![u] = loc.fillDone]
  /\ lastKey' = [lastKey EXCEPT ![u] = loc.lastKey]
  /\ undoStack' = [undoStack EXCEPT ![u] = loc.undoStack]
  /\ pending' = [pending EXCEPT ![u] = loc.pending]
  /\ flushTimer' = [flushTimer EXCEPT ![u] = loc.flushTimer]
  /\ timers' = [timers EXCEPT ![u] = loc.timers]
  /\ paints' = [paints EXCEPT ![u] = loc.paints]

\* pan.onBegin
StrokeBegin(u, gx, gy, tool, color, bs) ==
  /\ u \in mounted
  /\ ~inStroke[u]
  /\ nTouches' = nTouches + 1
  /\ inStroke' = [inStroke EXCEPT ![u] = TRUE]
  /\ strokeBase' = [strokeBase EXCEPT ![u] = pixels[u]]
  /\ pushed' = [pushed EXCEPT ![u] = FALSE]
  /\ SetLocal(u, handleTouch([Local(u) EXCEPT !.strokePrev = <<>>, !.fillDone = FALSE,
                                              !.lastKey = None, !.paints = <<>>],
                             gx, gy, tool, color, bs))
  /\ UNCHANGED <<remotePixels, inflight, inbox>>
  /\ UNCHANGED <<bases, nUndos>>
  /\ UNCHANGED <<mounted, lastActivity, clear, nClears, notCanvas>>

\* pan.onUpdate
StrokeUpdate(u, gx, gy, tool, color, bs) ==
  /\ u \in mounted
  /\ inStroke[u]
  /\ nTouches' = nTouches + 1
  /\ SetLocal(u, handleTouch(Local(u), gx, gy, tool, color, bs))
  /\ UNCHANGED <<remotePixels, inStroke, inflight, inbox, strokeBase, pushed>>
  /\ UNCHANGED <<bases, nUndos>>
  /\ UNCHANGED <<mounted, lastActivity, clear, nClears, notCanvas>>

\* pan.onEnd
StrokeEnd(u) ==
  /\ inStroke[u]
  /\ inStroke' = [inStroke EXCEPT ![u] = FALSE]
  /\ undoStack' = [undoStack EXCEPT ![u] =
                     IF DOMAIN strokePrev[u] # {}
                       THEN Append(SliceLast(undoStack[u], UNDO_KEEP), strokePrev[u])
                       ELSE undoStack[u]]
  /\ strokePrev' = [strokePrev EXCEPT ![u] = <<>>]
  /\ lastKey' = [lastKey EXCEPT ![u] = None]
  /\ UNCHANGED <<remotePixels, pixels, fillDone, pending, flushTimer, timers, inflight, inbox,
                 strokeBase, paints, pushed, nTouches>>
  /\ bases' = [bases EXCEPT ![u] =
                 IF DOMAIN strokePrev[u] # {}
                   THEN Append(SliceLast(@, UNDO_KEEP),
                               [base |-> strokeBase[u], clean |-> ~pushed[u]])
                   ELSE @]
  /\ UNCHANGED nUndos
  /\ UNCHANGED <<mounted, lastActivity, clear, nClears, notCanvas>>

\* Mutant: the timer's callback sends the buffer and does not empty it.
FlushFireKeepsBuffer(u) ==
  /\ flushTimer[u]
  /\ flushTimer' = [flushTimer EXCEPT ![u] = FALSE]
  /\ timers' = [timers EXCEPT ![u] = @ - 1]
  /\ inflight' = [inflight EXCEPT ![u] =
                    IF DOMAIN pending[u] # {} THEN Append(@, pending[u]) ELSE @]
  /\ UNCHANGED <<remotePixels, pixels, strokePrev, fillDone, lastKey, undoStack, inStroke,
                 inbox, strokeBase, paints, pushed, nTouches, pending>>
  /\ UNCHANGED <<bases, nUndos>>
  /\ UNCHANGED <<mounted, lastActivity, clear, nClears, notCanvas>>

\* The flush timer fires: the batch is taken and updatePixels is called.
FlushFire(u) ==
  /\ flushTimer[u]
  /\ flushTimer' = [flushTimer EXCEPT ![u] = FALSE]
  /\ timers' = [timers EXCEPT ![u] = @ - 1]
  /\ pending' = [pending EXCEPT ![u] = <<>>]
  /\ inflight' = [inflight EXCEPT ![u] =
                    IF DOMAIN pending[u] # {} THEN Append(@, pending[u]) ELSE @]
  /\ UNCHANGED <<remotePixels, pixels, strokePrev, fillDone, lastKey, undoStack, inStroke,
                 inbox, strokeBase, paints, pushed, nTouches>>
  /\ UNCHANGED <<bases, nUndos>>
  /\ UNCHANGED <<mounted, lastActivity, clear, nClears, notCanvas>>

\* updatePixels writing the batch with set() on liveCanvas/{pairId}/pixels:
\* the batch replaces the stored map.
WriteLandSet(u) ==
  /\ inflight[u] # <<>>
  /\ inflight' = [inflight EXCEPT ![u] = Tail(@)]
  /\ remotePixels' = Merge(<<>>, Head(inflight[u]))
  /\ inbox' = IF remotePixels' # remotePixels
                THEN [v \in Members |-> IF v \in mounted THEN Append(inbox[v], remotePixels')
                                                         ELSE inbox[v]]
                ELSE inbox
  /\ UNCHANGED <<pixels, strokePrev, fillDone, lastKey, undoStack, pending, flushTimer, timers,
                 inStroke, strokeBase, paints, pushed, nTouches>>
  /\ UNCHANGED <<bases, nUndos>>
  /\ UNCHANGED <<mounted, lastActivity, clear, nClears, notCanvas>>

\* Mutant: the new pixel map is sent to the other subscribers only, not to
\* the device that wrote.
WriteLandNoEcho(u) ==
  /\ inflight[u] # <<>>
  /\ inflight' = [inflight EXCEPT ![u] = Tail(@)]
  /\ remotePixels' = Merge(remotePixels, Head(inflight[u]))
  /\ inbox' = IF remotePixels' # remotePixels
                THEN [v \in Members |-> IF v \in mounted /\ v # u
                                          THEN Append(inbox[v], remotePixels')
                                          ELSE inbox[v]]
                ELSE inbox
  /\ UNCHANGED <<pixels, strokePrev, fillDone, lastKey, undoStack, pending, flushTimer, timers,
                 inStroke, strokeBase, paints, pushed, nTouches>>
  /\ UNCHANGED <<bases, nUndos>>
  /\ UNCHANGED <<mounted, lastActivity, clear, nClears, notCanvas>>

\* updatePixels' update() lands; every subscriber is sent the new pixel map
\* when a pixel changed.
WriteLand(u) ==
  /\ inflight[u] # <<>>
  /\ inflight' = [inflight EXCEPT ![u] = Tail(@)]
  /\ remotePixels' = Merge(remotePixels, Head(inflight[u]))
  /\ inbox' = IF remotePixels' # remotePixels
                THEN [v \in Members |-> IF v \in mounted THEN Append(inbox[v], remotePixels')
                                                         ELSE inbox[v]]
                ELSE inbox
  /\ UNCHANGED <<pixels, strokePrev, fillDone, lastKey, undoStack, pending, flushTimer, timers,
                 inStroke, strokeBase, paints, pushed, nTouches>>
  /\ UNCHANGED <<bases, nUndos>>
  /\ UNCHANGED <<mounted, lastActivity, clear, nClears, notCanvas>>

\* Mutant: the catch puts the batch back in the buffer, under the changes
\* made since, and schedules a flush.
WriteFailRequeue(u) ==
  /\ inflight[u] # <<>>
  /\ inflight' = [inflight EXCEPT ![u] = Tail(@)]
  /\ pending' = [pending EXCEPT ![u] = Assign(Head(inflight[u]), @)]
  /\ flushTimer' = [flushTimer EXCEPT ![u] = TRUE]
  /\ timers' = [timers EXCEPT ![u] = IF flushTimer[u] THEN @ ELSE @ + 1]
  /\ UNCHANGED <<remotePixels, pixels, strokePrev, fillDone, lastKey, undoStack,
                 inStroke, inbox, strokeBase, paints, pushed, nTouches>>
  /\ UNCHANGED <<bases, nUndos>>
  /\ UNCHANGED <<mounted, lastActivity, clear, nClears, notCanvas>>

\* updatePixels rejects; scheduleFlush's catch swallows it.
WriteFail(u) ==
  /\ inflight[u] # <<>>
  /\ inflight' = [inflight EXCEPT ![u] = Tail(@)]
  /\ UNCHANGED <<remotePixels, pixels, strokePrev, fillDone, lastKey, undoStack, pending,
                 flushTimer, timers, inStroke, inbox, strokeBase, paints, pushed, nTouches>>
  /\ UNCHANGED <<bases, nUndos>>
  /\ UNCHANGED <<mounted, lastActivity, clear, nClears, notCanvas>>

\* Mutant: the callback lays the unflushed changes over the incoming map.
DeliverMerging(u) ==
  /\ inbox[u] # <<>>
  /\ inbox' = [inbox EXCEPT ![u] = Tail(@)]
  /\ pixels' = [pixels EXCEPT ![u] = Merge(Head(inbox[u]), pending[u])]
  /\ pushed' = [pushed EXCEPT ![u] = @ \/ inStroke[u]]
  /\ UNCHANGED <<remotePixels, strokePrev, fillDone, lastKey, undoStack, pending,
                 flushTimer, timers, inStroke, inflight, strokeBase, paints, nTouches>>
  /\ bases' = [bases EXCEPT ![u] = [i \in DOMAIN @ |-> [@[i] EXCEPT !.clean = FALSE]]]
  /\ UNCHANGED nUndos
  /\ UNCHANGED <<mounted, lastActivity, clear, nClears, notCanvas>>

\* The subscribeLiveCanvas callback: setPixels(incoming).
Deliver(u) ==
  /\ inbox[u] # <<>>
  /\ inbox' = [inbox EXCEPT ![u] = Tail(@)]
  /\ pixels' = [pixels EXCEPT ![u] = Head(inbox[u])]
  /\ pushed' = [pushed EXCEPT ![u] = @ \/ inStroke[u]]
  /\ UNCHANGED <<remotePixels, strokePrev, fillDone, lastKey, undoStack, pending,
                 flushTimer, timers, inStroke, inflight, strokeBase, paints, nTouches>>
  /\ bases' = [bases EXCEPT ![u] = [i \in DOMAIN @ |-> [@[i] EXCEPT !.clean = FALSE]]]
  /\ UNCHANGED nUndos
  /\ UNCHANGED <<mounted, lastActivity, clear, nClears, notCanvas>>

\* handleUndo popping the newest snapshot but replaying the oldest one.
HandleUndoOldest(u) ==
  /\ u \in mounted
  /\ nUndos' = nUndos + 1
  /\ IF undoStack[u] = <<>>
       THEN UNCHANGED <<pixels, strokePrev, fillDone, lastKey, undoStack, pending,
                        flushTimer, timers, paints, bases>>
       ELSE LET last == undoStack[u][1]
                popped == SubSeq(undoStack[u], 1, Len(undoStack[u]) - 1)
            IN /\ SetLocal(u, applyChanges([Local(u) EXCEPT !.undoStack = popped],
                                           last, FALSE))
               /\ bases' = [bases EXCEPT ![u] = SubSeq(@, 1, Len(@) - 1)]
  /\ UNCHANGED <<remotePixels, inStroke, inflight, inbox, strokeBase, pushed, nTouches>>
  /\ UNCHANGED <<mounted, lastActivity, clear, nClears, notCanvas>>

\* Mutant: handleUndo calling applyChanges(last) with saveUndo left true.
HandleUndoSaving(u) ==
  /\ u \in mounted
  /\ nUndos' = nUndos + 1
  /\ IF undoStack[u] = <<>>
       THEN UNCHANGED <<pixels, strokePrev, fillDone, lastKey, undoStack, pending,
                        flushTimer, timers, paints, bases>>
       ELSE LET last == undoStack[u][Len(undoStack[u])]
                popped == SubSeq(undoStack[u], 1, Len(undoStack[u]) - 1)
            IN /\ SetLocal(u, applyChanges([Local(u) EXCEPT !.undoStack = popped],
                                           last, TRUE))
               /\ UNCHANGED bases
  /\ UNCHANGED <<remotePixels, inStroke, inflight, inbox, strokeBase, pushed, nTouches>>
  /\ UNCHANGED <<mounted, lastActivity, clear, nClears, notCanvas>>

\* handleUndo
HandleUndo(u) ==
  /\ u \in mounted
  /\ nUndos' = nUndos + 1
  /\ IF undoStack[u] = <<>>
       THEN UNCHANGED <<pixels, strokePrev, fillDone, lastKey, undoStack, pending,
                        flushTimer, timers, paints, bases>>
       ELSE LET last == undoStack[u][Len(undoStack[u])]
                popped == SubSeq(undoStack[u], 1, Len(undoStack[u]) - 1)
            IN /\ SetLocal(u, applyChanges([Local(u) EXCEPT !.undoStack = popped],
                                           last, FALSE))
               /\ bases' = [bases EXCEPT ![u] = SubSeq(@, 1, Len(@) - 1)]
  /\ UNCHANGED <<remotePixels, inStroke, inflight, inbox, strokeBase, pushed, nTouches>>
  /\ UNCHANGED <<mounted, lastActivity, clear, nClears, notCanvas>>

\* clearCanvas' write as it travels with the device's other writes: set()
\* of null on liveCanvas/{pairId}/pixels, told apart from a batch by a key
\* no batch has.
ClearWrite == (<<GRID, GRID>> :> None)

\* handleClear, the Clear button of the alert pressed: clearCanvas is called.
HandleClear(u) ==
  /\ u \in mounted
  /\ clear[u] = "idle"
  /\ clear' = [clear EXCEPT ![u] = "sent"]
  /\ nClears' = nClears + 1
  /\ inflight' = [inflight EXCEPT ![u] = Append(@, ClearWrite)]
  /\ UNCHANGED <<remotePixels, pixels, strokePrev, fillDone, lastKey, undoStack, pending,
                 flushTimer, timers, inStroke, inbox, strokeBase, paints, pushed, bases, nUndos,
                 nTouches>>
  /\ UNCHANGED <<mounted, lastActivity, notCanvas>>

\* clearCanvas' set() lands: the pixel map is removed, and every subscriber
\* is sent the empty map when there was a pixel.
ClearLand(u) ==
  /\ clear[u] = "sent"
  /\ inflight[u] # <<>> /\ Head(inflight[u]) = ClearWrite
  /\ inflight' = [inflight EXCEPT ![u] = Tail(@)]
  /\ remotePixels' = <<>>
  /\ inbox' = IF remotePixels' # remotePixels
                THEN [v \in Members |-> IF v \in mounted THEN Append(inbox[v], remotePixels')
                                                         ELSE inbox[v]]
                ELSE inbox
  /\ clear' = [clear EXCEPT ![u] = "landed"]
  /\ UNCHANGED <<pixels, strokePrev, fillDone, lastKey, undoStack, pending, flushTimer, timers,
                 inStroke, strokeBase, paints, pushed, bases, nUndos, nTouches, nClears>>
  /\ UNCHANGED <<mounted, lastActivity, notCanvas>>

\* clearCanvas rejects: the rest of onPress is skipped.
ClearFail(u) ==
  /\ clear[u] = "sent"
  /\ inflight[u] # <<>> /\ Head(inflight[u]) = ClearWrite
  /\ inflight' = [inflight EXCEPT ![u] = Tail(@)]
  /\ clear' = [clear EXCEPT ![u] = "idle"]
  /\ UNCHANGED <<remotePixels, pixels, strokePrev, fillDone, lastKey, undoStack, pending,
                 flushTimer, timers, inStroke, inbox, strokeBase, paints, pushed, bases, nUndos,
                 nTouches, nClears>>
  /\ UNCHANGED <<mounted, lastActivity, notCanvas>>

\* onPress resuming after the await and leaving the undo stack as it is.
ClearReturnKeepsStack(u) ==
  /\ clear[u] = "landed"
  /\ clear' = [clear EXCEPT ![u] = "idle"]
  /\ UNCHANGED <<remotePixels, pixels, strokePrev, fillDone, lastKey, undoStack, pending,
                 flushTimer, timers, inStroke, inflight, inbox, strokeBase, paints, pushed, bases,
                 nUndos, nTouches, nClears>>
  /\ UNCHANGED <<mounted, lastActivity, notCanvas>>

\* onPress resumes after the await: undoStackRef.current = [].
ClearReturn(u) ==
  /\ clear[u] = "landed"
  /\ clear' = [clear EXCEPT ![u] = "idle"]
  /\ undoStack' = [undoStack EXCEPT ![u] = <<>>]
  /\ bases' = [bases EXCEPT ![u] = <<>>]
  /\ UNCHANGED <<remotePixels, pixels, strokePrev, fillDone, lastKey, pending, flushTimer, timers,
                 inStroke, inflight, inbox, strokeBase, paints, pushed, nUndos, nTouches,
                 nClears>>
  /\ UNCHANGED <<mounted, lastActivity, notCanvas>>

CanvasNext ==
  \/ \E u \in Members, c \in Samples, tool \in Tools, color \in Palette, bs \in Brushes :
       nTouches < MaxTouches /\ StrokeBegin(u, c[1], c[2], tool, color, bs)
  \/ \E u \in Members, c \in Samples, tool \in Tools, color \in Palette, bs \in Brushes :
       nTouches < MaxTouches /\ StrokeUpdate(u, c[1], c[2], tool, color, bs)
  \/ \E u \in Members : StrokeEnd(u)
  \/ \E u \in Members : FlushFire(u)
  \/ \E u \in Members : WriteLand(u)
  \/ \E u \in Members : WriteFail(u)
  \/ \E u \in Members : Deliver(u)

\* Taps: strokes of one sample, with the pencil (red ink) or the eraser and
\* the smallest brush, on two neighbouring cells. Undo is pressed between
\* strokes, and a debounce timer fires once the previous round trip is over.
TapCells == {<<0, 0>>, <<1, 0>>}
UndoNext ==
  \/ \E u \in Members, c \in TapCells, tool \in {"pencil", "eraser"}, color \in {"red"} :
       nTouches < MaxStrokes /\ StrokeBegin(u, c[1], c[2], tool, color, 1)
  \/ \E u \in Members : StrokeEnd(u)
  \/ \E u \in Members : nUndos < MaxStrokes /\ ~inStroke[u] /\ HandleUndo(u)
  \/ \E u \in Members : inflight[u] = <<>> /\ inbox[u] = <<>> /\ FlushFire(u)
  \/ \E u \in Members : WriteLand(u)
  \/ \E u \in Members : WriteFail(u)
  \/ \E u \in Members : Deliver(u)

\* Both partners tap on the shared canvas with the smallest brush, each
\* with an ink of their own picked in the palette.
InkOf == [u \in Members |-> IF u = "A" THEN "red" ELSE "blue"]
DuoNext ==
  \/ \E u \in Members, c \in TapCells, tool \in {"pencil", "eraser"} :
       nTouches < MaxTouches /\ StrokeBegin(u, c[1], c[2], tool, InkOf[u], 1)
  \/ \E u \in Members : StrokeEnd(u)
  \/ \E u \in Members : FlushFire(u)
  \/ \E u \in Members : WriteLand(u)
  \/ \E u \in Members : WriteFail(u)
  \/ \E u \in Members : Deliver(u)

\* Both partners tap on the shared canvas and every write succeeds.
ConvergeNext ==
  \/ \E u \in Members, c \in TapCells, tool \in {"pencil", "eraser"} :
       nTouches < MaxTouches /\ StrokeBegin(u, c[1], c[2], tool, InkOf[u], 1)
  \/ \E u \in Members : StrokeEnd(u)
  \/ \E u \in Members : FlushFire(u)
  \/ \E u \in Members : WriteLand(u)
  \/ \E u \in Members : Deliver(u)

\* Taps, undo and Clear on one device; the device's writes land in the
\* order they were issued, and a debounce timer fires once the previous
\* round trip is over.
ClearNext ==
  \/ \E u \in Members, c \in TapCells, tool \in {"pencil", "eraser"} :
       nTouches < MaxTouches /\ StrokeBegin(u, c[1], c[2], tool, InkOf[u], 1)
  \/ \E u \in Members : StrokeEnd(u)
  \/ \E u \in Members : nUndos < MaxClears /\ ~inStroke[u] /\ HandleUndo(u)
  \/ \E u \in Members : inflight[u] = <<>> /\ inbox[u] = <<>> /\ FlushFire(u)
  \/ \E u \in Members : inflight[u] # <<>> /\ Head(inflight[u]) # ClearWrite /\ WriteLand(u)
  \/ \E u \in Members : inflight[u] # <<>> /\ Head(inflight[u]) # ClearWrite /\ WriteFail(u)
  \/ \E u \in Members : Deliver(u)
  \/ \E u \in Members : nClears < MaxClears /\ HandleClear(u)
  \/ \E u \in Members : ClearLand(u)
  \/ \E u \in Members : ClearFail(u)
  \/ \E u \in Members : ClearReturn(u)

\* SayangScreen is left: the effects' cleanups run. The subscription is
\* detached and an armed flush timer is cancelled; pendingRef is not read.
SayangUnmount(u) ==
  /\ u \in mounted
  /\ ~inStroke[u]
  /\ mounted' = mounted \ {u}
  /\ inbox' = [inbox EXCEPT ![u] = <<>>]
  /\ flushTimer' = [flushTimer EXCEPT ![u] = FALSE]
  /\ timers' = [timers EXCEPT ![u] = IF flushTimer[u] THEN @ - 1 ELSE @]
  /\ UNCHANGED <<remotePixels, pixels, strokePrev, fillDone, lastKey, undoStack, pending,
                 inStroke, inflight, strokeBase, paints, pushed, bases, nUndos, nTouches>>
  /\ UNCHANGED <<lastActivity, clear, nClears, notCanvas>>

\* Taps and undo on one device, which may leave the canvas screen.
LeaveNext ==
  \/ \E u \in Members, c \in TapCells, tool \in {"pencil", "eraser"} :
       nTouches < MaxTouches /\ StrokeBegin(u, c[1], c[2], tool, InkOf[u], 1)
  \/ \E u \in Members : StrokeEnd(u)
  \/ \E u \in Members : nUndos < MaxClears /\ ~inStroke[u] /\ HandleUndo(u)
  \/ \E u \in Members : FlushFire(u)
  \/ \E u \in Members : WriteLand(u)
  \/ \E u \in Members : WriteFail(u)
  \/ \E u \in Members : Deliver(u)
  \/ \E u \in Members : SayangUnmount(u)

\* What happens on its own once it is due: the finger is lifted, an armed
\* timer fires, an issued write lands or is rejected, a push is delivered.
LeaveProgress ==
  \/ \E u \in Members : StrokeEnd(u)
  \/ \E u \in Members : FlushFire(u)
  \/ \E u \in Members : WriteLand(u)
  \/ \E u \in Members : Deliver(u)

\* What the runtime does on its own once it is due: an armed timer fires, a
\* write that was issued lands or is rejected, a subscription push is
\* delivered, an awaited call returns, the finger is lifted.
ClearProgress ==
  \/ \E u \in Members : StrokeEnd(u)
  \/ \E u \in Members : inflight[u] = <<>> /\ inbox[u] = <<>> /\ FlushFire(u)
  \/ \E u \in Members : inflight[u] # <<>> /\ Head(inflight[u]) # ClearWrite /\ WriteLand(u)
  \/ \E u \in Members : Deliver(u)
  \/ \E u \in Members : ClearLand(u)
  \/ \E u \in Members : ClearReturn(u)

\* ------------------------------------------------------ HomeScreen
\* One of MOOD_OPTIONS, and how many calls of one handler a device has
\* pending at once.
Moods == {"smile"}
MaxPending == 2

\* The subscribeMood calls device A makes on users/A/mood.
SubIds == {1, 2}

HomeInit ==
  /\ mood = [u \in Members |-> None]
  /\ myMood = [u \in Members |-> None]
  /\ moodCall = [u \in Members |-> <<>>]
  /\ nudgeSent = [u \in Members |-> FALSE]
  /\ nudgeCall = [u \in Members |-> 0]
  /\ alerts = [u \in Members |-> {}]
  /\ latestSeen = [u \in Members |-> NoLatest]
  /\ lastMsgTs = [u \in Members |-> -1]
  /\ msgs = [u \in Members |-> <<>>]
  /\ listeners = {}
  /\ handles = {}
  /\ heard = [i \in SubIds |-> "never"]

\* handleMoodTap up to its await: setMood(id, myMood === emoji ? null : emoji).
\* Both members are signed in.
HandleMoodTap(u, emoji) ==
  /\ Len(moodCall[u]) < MaxPending
  /\ moodCall' = [moodCall EXCEPT ![u] = Append(@, IF myMood[u] = emoji THEN None ELSE emoji)]
  /\ UNCHANGED <<mood, myMood, nudgeSent, nudgeCall, alerts, notHome>>

\* setMood's set(users/{userId}/mood) lands, and handleMoodTap returns.
MoodLand(u) ==
  /\ moodCall[u] # <<>>
  /\ mood' = [mood EXCEPT ![u] = Head(moodCall[u])]
  /\ moodCall' = [moodCall EXCEPT ![u] = Tail(@)]
  /\ UNCHANGED <<myMood, nudgeSent, nudgeCall, alerts, notHome>>

\* setMood rejects: handleMoodTap has no catch, and the rejection of the
\* promise it returned to onPress is handled by nobody.
MoodFail(u) ==
  /\ moodCall[u] # <<>>
  /\ moodCall' = [moodCall EXCEPT ![u] = Tail(@)]
  /\ UNCHANGED <<mood, myMood, nudgeSent, nudgeCall, alerts, notHome>>

\* The callback of subscribeMood(currentUser.id, setMyMood).
MoodDeliver(u) ==
  /\ myMood[u] # mood[u]
  /\ myMood' = [myMood EXCEPT ![u] = mood[u]]
  /\ UNCHANGED <<mood, moodCall, nudgeSent, nudgeCall, alerts, notHome>>

\* subscribeMood(userId, onMood): onValue registers the call's callback on
\* the ref, and the call returns its unsubscribe handle.
SubscribeMood(i) ==
  /\ i \notin handles /\ i \notin listeners
  /\ listeners' = listeners \cup {i}
  /\ handles' = handles \cup {i}
  /\ heard' = [heard EXCEPT ![i] = "never"]
  /\ UNCHANGED <<homeVars, alerts, notListen>>

\* A registered callback is handed the value of users/A/mood.
MoodPush(i) ==
  /\ i \in listeners
  /\ heard[i] # mood["A"]
  /\ heard' = [heard EXCEPT ![i] = mood["A"]]
  /\ UNCHANGED <<listeners, handles, homeVars, alerts, notListen>>

\* The handle subscribeMood returned is invoked: off(moodRef), with no
\* event type and no callback, removes every callback registered on the ref.
UnsubscribeMood(i) ==
  /\ i \in handles
  /\ handles' = handles \ {i}
  /\ listeners' = {}
  /\ UNCHANGED <<heard, homeVars, alerts, notListen>>

\* Device A subscribes to its own mood, from one or two places, and taps
\* moods.
ListenNext ==
  \/ \E i \in SubIds : SubscribeMood(i)
  \/ \E i \in SubIds : MoodPush(i)
  \/ \E i \in SubIds : UnsubscribeMood(i)
  \/ \E emoji \in Moods : HandleMoodTap("A", emoji)
  \/ MoodLand("A")
  \/ MoodFail("A")
  \/ MoodDeliver("A")

\* handleNudge up to its await; both members have a pairId.
HandleNudge(u) ==
  /\ ~nudgeSent[u]
  /\ nudgeCall[u] < MaxPending
  /\ nudgeCall' = [nudgeCall EXCEPT ![u] = @ + 1]
  /\ UNCHANGED <<mood, myMood, moodCall, nudgeSent, alerts, notHome>>

\* sendNudge resolves: setNudgeSent(true), and the cooldown timer is set.
NudgeSent(u) ==
  /\ nudgeCall[u] > 0
  /\ nudgeCall' = [nudgeCall EXCEPT ![u] = @ - 1]
  /\ nudgeSent' = [nudgeSent EXCEPT ![u] = TRUE]
  /\ UNCHANGED <<mood, myMood, moodCall, alerts, notHome>>

\* handleNudge whose catch shows nothing.
NudgeFailSilent(u) ==
  /\ nudgeCall[u] > 0
  /\ nudgeCall' = [nudgeCall EXCEPT ![u] = @ - 1]
  /\ UNCHANGED <<mood, myMood, moodCall, nudgeSent, alerts, notHome>>

\* sendNudge rejects: the catch of handleNudge shows 'Could not send'.
NudgeFail(u) ==
  /\ nudgeCall[u] > 0
  /\ nudgeCall' = [nudgeCall EXCEPT ![u] = @ - 1]
  /\ alerts' = [alerts EXCEPT ![u] = @ \cup {"Could not send"}]
  /\ UNCHANGED <<mood, myMood, moodCall, nudgeSent, notHome>>

\* A cooldown timer fires after NUDGE_COOLDOWN_MS: setNudgeSent(false).
NudgeCooldown(u) ==
  /\ nudgeSent[u]
  /\ nudgeSent' = [nudgeSent EXCEPT ![u] = FALSE]
  /\ UNCHANGED <<mood, myMood, moodCall, nudgeCall, alerts, notHome>>

\* The callback HomeScreen gave subscribeToLatestMessage is handed the
\* projection as it is now: a partner's note newer than the last one shown
\* raises the banner, and nothing else is kept. The screen was mounted
\* before the first send, and lastMsgTsRef starts below every timestamp.
LatestDeliver(u) ==
  /\ latestSeen[u] # latest
  /\ latestSeen' = [latestSeen EXCEPT ![u] = latest]
  /\ lastMsgTs' = [lastMsgTs EXCEPT ![u] =
                     IF latest # NoLatest /\ latest.authorId # u /\ latest.timestamp > @
                       THEN latest.timestamp ELSE @]
  /\ UNCHANGED <<pairVars, msgVars, fillVars, canvasVars, watchVars, homeVars, listenVars, alerts, msgs>>

\* Object.values(snap.val()): the records in the order of their keys.
RECURSIVE ObjectValues(_)
ObjectValues(obj) ==
  IF DOMAIN obj = {} THEN <<>>
  ELSE LET k == CHOOSE i \in DOMAIN obj : \A j \in DOMAIN obj : i <= j
       IN <<obj[k]>> \o ObjectValues([j \in DOMAIN obj \ {k} |-> obj[j]])

\* list.sort((a, b) => a.timestamp - b.timestamp), oldest first.
RECURSIVE SortOldestFirst(_)
SortOldestFirst(list) ==
  IF list = <<>> THEN <<>>
  ELSE LET m == list[Len(list)]
           sorted == SortOldestFirst(SubSeq(list, 1, Len(list) - 1))
           n == Cardinality({i \in DOMAIN sorted : sorted[i].timestamp - m.timestamp <= 0})
       IN SubSeq(sorted, 1, n) \o <<m>> \o SubSeq(sorted, n + 1, Len(sorted))

\* list.sort((a, b) => b.timestamp - a.timestamp): a stable sort, so a
\* record goes behind those the comparator does not put after it.
RECURSIVE Sort(_)
Sort(list) ==
  IF list = <<>> THEN <<>>
  ELSE LET m == list[Len(list)]
           sorted == Sort(SubSeq(list, 1, Len(list) - 1))
           n == Cardinality({i \in DOMAIN sorted : m.timestamp - sorted[i].timestamp <= 0})
       IN SubSeq(sorted, 1, n) \o <<m>> \o SubSeq(sorted, n + 1, Len(sorted))

\* The onValue callback of subscribeToHistory, handed the history as it is.
HistoryDeliver(u) ==
  /\ msgs' = [msgs EXCEPT ![u] = IF DOMAIN history = {} THEN <<>>
                                                        ELSE Sort(ObjectValues(history))]
  /\ msgs'[u] # msgs[u]
  /\ UNCHANGED <<pairVars, msgVars, fillVars, canvasVars, watchVars, homeVars, listenVars, alerts,
                 latestSeen, lastMsgTs>>

\* Device A sends notes, is shown the history and deletes from it.
HistoryNext ==
  \/ Tick
  \/ \E note \in Notes : SendStart("A", note)
  \/ SendHistory("A")
  \/ SendLatest("A")
  \/ SendCache("A")
  \/ \E id \in 1..MaxSends : id \in DOMAIN history /\ DeleteMessage(id)
  \/ HistoryDeliver("A")

\* Sends by either partner while both have HomeScreen mounted.
CacheNext ==
  \/ MsgNext
  \/ \E u \in Members : LatestDeliver(u)

\* Device A sends a text note, taps a mood, nudges and taps a cell, and
\* each of its writes may be rejected. Its user is on one screen at a time,
\* and leaves it when the calls started there have settled.
ComposeIdle == send["A"].pc = "idle"
HomeIdle == moodCall["A"] = <<>> /\ nudgeCall["A"] = 0
SayangIdle ==
  ~inStroke["A"] /\ ~flushTimer["A"] /\ inflight["A"] = <<>> /\ inbox["A"] = <<>>
ErrNext ==
  \/ \E note \in {[content |-> "hi", type |-> "text"]} : HomeIdle /\ SayangIdle /\ SendStart("A", note)
  \/ SendHistory("A")
  \/ SendLatest("A")
  \/ SendCache("A")
  \/ SendFail("A")
  \/ \E emoji \in Moods : ComposeIdle /\ SayangIdle /\ HandleMoodTap("A", emoji)
  \/ MoodLand("A")
  \/ MoodFail("A")
  \/ MoodDeliver("A")
  \/ ComposeIdle /\ SayangIdle /\ HandleNudge("A")
  \/ NudgeSent("A")
  \/ NudgeFail("A")
  \/ NudgeCooldown("A")
  \/ \E c \in {<<0, 0>>} :
       /\ nTouches < MaxTouches /\ ComposeIdle /\ HomeIdle
       /\ StrokeBegin("A", c[1], c[2], "pencil", "red", 1)
  \/ StrokeEnd("A")
  \/ inflight["A"] = <<>> /\ inbox["A"] = <<>> /\ FlushFire("A")
  \/ WriteLand("A")
  \/ WriteFail("A")
  \/ Deliver("A")

\* ------------------------------------------------------ specifications
\* The state after construction: nothing stored, no call in flight.
Init == PairInit /\ MsgInit /\ FillOff /\ CanvasOff /\ HomeInit

PairNext == PairStart \/ PairStep

\* Pairing: every device's steps interleave with every other's.
SpecPair == Init /\ [][PairNext]_vars

\* Mood subscriptions of one device.
SpecListen == Init /\ [][ListenNext]_vars

\* Pairing with the push token registered at app start.
LoginNext == PairNext \/ \E u \in Users, token \in Tokens : SaveFcmToken(u, token)

SpecLogin == Init /\ [][LoginNext]_vars

\* Pairing, one call at a time: a call starts only when none is in flight.
Quiescent == \A u \in Users : Idle(u)
PairSeqNext ==
  \/ \E u \in Users : Quiescent /\ LoginLocal(u, NameOf[u])
  \/ \E u \in Users, code \in Codes : Quiescent /\ CreatePairCode(u, code)
  \/ \E u \in Users, raw \in RawCodes : Quiescent /\ JoinRead(u, raw)
  \/ PairStep
SpecPairSeq == Init /\ [][PairSeqNext]_vars

\* Pairing through PairingScreen's handlers, watchers included.
SpecWatch == Init /\ [][WatchNext]_vars

\* Messages of one pair; both members' sends interleave.
SpecMsg == Init /\ [][MsgNext]_vars

\* The message engine with deletions.
SpecDelete == Init /\ [][MsgDeleteNext]_vars

\* floodFill on every grid of Grids, from every start cell, one loop pass
\* per step; the loop is synchronous code, so it keeps running.
InitFill == PairInit /\ MsgInit /\ FillInit /\ CanvasOff /\ HomeInit
SpecFill == InitFill /\ [][FillNext]_vars /\ WF_vars(FillStep \/ FillReturn)

\* One device draws on a canvas an earlier session left, while its flushes
\* and the subscription's pushes arrive in any interleaving.
InitCanvas == PairInit /\ MsgInit /\ FillOff /\ CanvasInit /\ HomeInit
SpecCanvas == InitCanvas /\ [][CanvasNext]_vars

\* One device, on a new pair's empty canvas, taps and undoes until the undo
\* stack has overflowed; a flush's round trip (write, push, delivery) is
\* over before the timer fires again.
InitUndo == PairInit /\ MsgInit /\ FillOff /\ CanvasMounted(<<>>, {"A"}) /\ HomeInit
SpecUndo == InitUndo /\ [][UndoNext]_vars

\* Both partners have SayangScreen open on an empty canvas.
InitDuo == PairInit /\ MsgInit /\ FillOff /\ CanvasMounted(<<>>, Members) /\ HomeInit
SpecDuo == InitDuo /\ [][DuoNext]_vars

\* Device A has SayangScreen open on an empty canvas, draws and can clear it.
SpecClear == InitUndo /\ [][ClearNext]_vars

\* Both partners painting with no write rejected.
SpecConverge == InitDuo /\ [][ConvergeNext]_vars

\* One device painting and leaving the canvas screen; timers, writes and
\* pushes do not wait for ever.
SpecLeave == InitUndo /\ [][LeaveNext]_vars /\ WF_vars(LeaveProgress)

\* The same, with timers, writes and pushes that do not wait for ever.
SpecClearFair == InitUndo /\ [][ClearNext]_vars /\ WF_vars(ClearProgress)

\* Both partners send notes, and the pushes of the latest-message
\* subscription reach their screens at any later time.
SpecCache == Init /\ [][CacheNext]_vars

\* Device A sends and deletes notes, and its history subscription fires at
\* any later time.
SpecHistory == Init /\ [][HistoryNext]_vars

\* Device A uses ComposeScreen, HomeScreen and SayangScreen while the store
\* may reject its writes.
SpecErr == InitUndo /\ [][ErrNext]_vars

\* ================================================================ claims
\* ---------------------------------------------------------------- pairing
JoinedOk(u) == result[u].status = "ok" /\ join[u].pc = "idle"

\* C1 (as claimed): when a single code has been created, once, at most one
\* joinWithCode call returns a pair id and at most one Pair record exists,
\* however the joiners' reads and writes interleave.
C1_SingleUse ==
  SumOver(created, CodeKeys) <= 1 =>
    /\ Cardinality({u \in Users : JoinedOk(u)}) <= 1
    /\ Cardinality(DOMAIN pairs) <= 1

\* C2: a joinWithCode call that starts after another call on the same code
\* has returned a pair id (the code having been created once) ends with
\* CodeNotFound.
C2_SecondJoinFails ==
  \A u \in Users :
    (join[u].afterOk /\ created[join[u].key] = 1) => result[u].status = "CodeNotFound"

C2_Witness ==
  \E u, v \in Users :
    /\ u # v
    /\ JoinedOk(v) /\ join[v].key = join[u].key
    /\ join[u].afterOk /\ created[join[u].key] = 1
    /\ result[u].status = "CodeNotFound"

\* C3: the step in which joinWithCode fails with CodeNotFound or
\* SelfPairAttempt (its only step: the read of the code) changes none of
\* pairs, users, pairCodes and the joiner's stored pair id.
C3_FailedJoinWritesNothing ==
  [][\A u \in Users :
       ((\E raw \in RawCodes : JoinRead(u, raw))
          /\ result'[u].status \in {"CodeNotFound", "SelfPairAttempt"})
       => UNCHANGED <<pairs, users, pairCodes, localPairId>>]_vars

C3_Witness ==
  \E u, v \in Users :
    /\ result[u].status = "SelfPairAttempt" /\ pairCodes[join[u].key].userId = u
    /\ result[v].status = "CodeNotFound"
    /\ pairs = <<>>

\* What a returned joinWithCode(code, u) leaves behind.
JoinPost(u) ==
  LET pairId == result[u].pairId
      creator == join[u].creator
  IN /\ pairId \in DOMAIN pairs
     /\ {pairs[pairId].user1, pairs[pairId].user2} = {creator, u}
     /\ creator # u
     /\ users[creator].pairId = pairId
     /\ users[u].pairId = pairId
     /\ pairCodes[join[u].key] = NoCode
     /\ localPairId[u] = pairId

\* C4: when joinWithCode returns a pair id (no other call interleaving), the
\* Pair record holds exactly creator and joiner, both users' pairId fields
\* and the joiner's stored pair id equal the returned id, and the code is
\* gone.
C4_JoinPostcondition ==
  [][\A u \in Users : JoinLocal(u) => (JoinedOk(u) /\ JoinPost(u))']_vars

C4_Witness ==
  \E u \in Users : JoinedOk(u) /\ JoinPost(u) /\ result[u].pairId = PairIdOf(join[u].creator, u)

\* Two code strings are equal up to letter case.
SameLetters(x, y) ==
  LET Pair(a, b) == {a, b} \in {{"q", "Q"}, {"k", "K"}} \/ a = b
  IN DOMAIN x = DOMAIN y /\ \A i \in DOMAIN x : Pair(x[i], y[i])

\* After u's join with creator c both sides resolve each other.
PartnersResolve(u) ==
  LET pairId == result[u].pairId
      creator == join[u].creator
      mine == GetPartnerProfile(pairId, u)
      theirs == GetPartnerProfile(pairId, creator)
  IN /\ mine.id = creator /\ mine.name = currentUser[creator].name /\ mine.name # None
     /\ theirs.id = u /\ theirs.name = currentUser[u].name /\ theirs.name # None

\* C5: a joinWithCode whose argument equals, up to letter case, a live code
\* of another user does not fail at the lookup; and once a join has
\* returned pairId, getPartnerProfile(pairId, creator) is the joiner and
\* getPartnerProfile(pairId, joiner) is the creator.
C5_CaseInsensitiveSymmetric ==
  /\ [][\A u \in Users, raw \in RawCodes, c \in Codes :
          (JoinRead(u, raw) /\ SameLetters(raw, c) /\ pairCodes[c].userId \notin {None, u})
          => (result'[u].status = "pending" /\ join'[u].creator = pairCodes[c].userId)]_vars
  /\ [](\A u \in Users : JoinedOk(u) => PartnersResolve(u))

C5_Witness ==
  \E u \in Users :
    /\ JoinedOk(u) /\ join[u].code # join[u].key
    /\ PartnersResolve(u)

\* --------------------------------------------------------------- messages
AllSendsDone == \A u \in Members : send[u].pc = "idle"
Newest(k) == \A j \in DOMAIN history : history[j].timestamp <= history[k].timestamp
Mirrors(k) ==
  /\ latest.content = history[k].content
  /\ latest.authorId = history[k].authorId
  /\ latest.timestamp = history[k].timestamp

\* C6 (as claimed): once every sendMessage has completed and none failed, the
\* projection carries content, author and timestamp of a history record with
\* the greatest timestamp.
C6_LatestIsNewest ==
  (AllSendsDone /\ ~sendFailed /\ history # <<>>) =>
    \E k \in DOMAIN history : Newest(k) /\ Mirrors(k)

\* C7: the projection, when present, is that of a message already written to
\* history; and no step of a send before its projection write, nor its
\* interruption, changes the projection.
C7_HistoryBeforeProjection ==
  /\ [](latest # NoLatest =>
          \E m \in archive :
            /\ m.content = latest.content /\ m.type = latest.type
            /\ m.authorId = latest.authorId /\ m.authorName = latest.authorName
            /\ m.timestamp = latest.timestamp)
  /\ [][\A u \in Members :
          ((\E note \in Notes : SendStart(u, note)) \/ SendHistory(u) \/ SendFail(u))
          => latest' = latest]_vars

\* A send was interrupted between its two writes: its record is in history
\* and the projection is still the previous send's.
C7_Witness ==
  /\ sendFailed /\ AllSendsDone
  /\ latest # NoLatest
  /\ \E k \in DOMAIN history : history[k].timestamp > latest.timestamp

\* -------------------------------------------------------------- flood fill
Adjacent(c, d) ==
  LET dx == IF c[1] > d[1] THEN c[1] - d[1] ELSE d[1] - c[1]
      dy == IF c[2] > d[2] THEN c[2] - d[2] ELSE d[2] - c[2]
  IN dx + dy = 1

\* The 4-connected component of the start cell among the in-grid cells of
\* its colour: the least set holding the start cell and closed under
\* "an adjacent cell of the target colour".
RECURSIVE Grow(_, _, _)
Grow(grid, targetColor, S) ==
  LET T == S \cup {c \in Cells : Get(grid, c) = targetColor /\ \E d \in S : Adjacent(c, d)}
  IN IF T = S THEN S ELSE Grow(grid, targetColor, T)
Region(grid, start) == Grow(grid, Get(grid, start), {start})

\* C8: a finished floodFill(pixels, x0, y0, c) returns the empty change set
\* when the start cell has colour c, and otherwise maps exactly the cells of
\* the start cell's 4-connected same-colour region to c.
C8_FloodFillRegion ==
  fill.pc = "done" =>
    LET start == Key(fill.x, fill.y) IN
    /\ fill.changes = floodFill(fpixels, fill.x, fill.y, fill.fillColor)
    /\ IF Get(fpixels, start) = fill.fillColor
         THEN fill.changes = <<>>
         ELSE /\ DOMAIN fill.changes = Region(fpixels, start)
              /\ \A k \in DOMAIN fill.changes : fill.changes[k] = fill.fillColor

\* A fill has returned a change set that leaves out a cell of the start
\* cell's colour, because that cell touches the region only diagonally.
C8_Witness ==
  /\ fill.pc = "done" /\ DOMAIN fill.changes # {}
  /\ \E c \in Cells :
       /\ Get(fpixels, c) = fill.targetColor
       /\ c \notin DOMAIN fill.changes

NoRepeat(seq) == \A i, j \in DOMAIN seq : seq[i] = seq[j] => i = j

\* C9: every floodFill call returns, and no cell is added to the visited set
\* or to the change set twice.
C9_FillTerminates ==
  /\ [](NoRepeat(fill.visited) /\ DOMAIN fill.changes = Range(fill.visited))
  /\ (fill.pc = "loop") ~> (fill.pc = "done")

\* A fill of the whole grid has returned: every cell was enqueued by each of
\* its neighbours and added once.
C9_Witness ==
  /\ fill.pc = "done"
  /\ Len(fill.visited) = GRID * GRID
  /\ NoRepeat(fill.visited)

\* ------------------------------------------------------------------ canvas
\* The snapshot pan.onEnd is about to push for device u's stroke, were it
\* the pre-stroke colours of the cells the stroke covered.
PreStroke(u) == [k \in DOMAIN paints[u] |-> Get(strokeBase[u], k)]
LastOf(seq) == seq[Len(seq)]

\* C10 as stated: the snapshot pan.onEnd pushes has exactly the cells the
\* stroke's changes covered as keys, each mapped to the colour the cell had
\* on this device when the stroke began, whatever was repainted during the
\* stroke and whatever the subscription delivered during it.
C10_AsStated ==
  [][\A u \in Members :
       (StrokeEnd(u) /\ DOMAIN paints[u] # {}) =>
         /\ Len(undoStack'[u]) = Len(undoStack[u]) + 1
         /\ LastOf(undoStack'[u]) = PreStroke(u)]_vars

\* C10 (amended): the snapshot pan.onEnd pushes has exactly the cells the
\* stroke's changes covered as keys, however often they were repainted; each
\* is mapped to the colour the cell had on this device when the stroke
\* began, provided no subscription snapshot was delivered during the stroke.
C10_StrokeSnapshot ==
  [][\A u \in Members :
       (StrokeEnd(u) /\ DOMAIN paints[u] # {}) =>
         /\ Len(undoStack'[u]) = Len(undoStack[u]) + 1
         /\ DOMAIN LastOf(undoStack'[u]) = DOMAIN paints[u]
         /\ ~pushed[u] => LastOf(undoStack'[u]) = PreStroke(u)]_vars

\* A stroke has ended with no push in between, after painting some cell
\* twice and leaving it in another colour than it had.
C10_Witness ==
  \E u \in Members :
    /\ ~inStroke[u] /\ ~pushed[u]
    /\ undoStack[u] # <<>>
    /\ LastOf(undoStack[u]) = PreStroke(u)
    /\ \E k \in DOMAIN paints[u] :
         /\ paints[u][k] >= 2
         /\ Get(pixels[u], k) # Get(strokeBase[u], k)

\* -------------------------------------------------------------- undo
\* C11: a device's undo stack never holds more than UNDO_KEEP + 1 snapshots
\* (20 in the source), and a stroke committed on a full stack evicts the
\* oldest snapshot: the newest UNDO_KEEP (19) stay in order, followed by the
\* new one.
C11_UndoStackBounded ==
  /\ [](\A u \in Members : Len(undoStack[u]) <= UNDO_KEEP + 1)
  /\ [][\A u \in Members :
         (StrokeEnd(u) /\ DOMAIN strokePrev[u] # {} /\ Len(undoStack[u]) = UNDO_KEEP + 1) =>
           /\ Len(undoStack'[u]) = UNDO_KEEP + 1
           /\ \A i \in 1..UNDO_KEEP : undoStack'[u][i] = undoStack[u][i + 1]
           /\ undoStack'[u][UNDO_KEEP + 1] = strokePrev[u]]_vars

\* UNDO_KEEP + 2 strokes were committed with no undo: the oldest snapshot
\* left was taken when (0,0) was already red, so the first one is gone.
C11_Witness ==
  /\ nTouches = UNDO_KEEP + 2 /\ nUndos = 0 /\ ~inStroke["A"]
  /\ Len(undoStack["A"]) = UNDO_KEEP + 1
  /\ undoStack["A"][1] = (<<0, 0>> :> "red")

\* C12 as stated: when the partner sends no update (the partner's canvas
\* screen is closed), an undo
\* returns the device's grid to its state before the stroke it undoes (so k
\* undos after n strokes return it to the state before the last k strokes),
\* and an undo on an empty stack changes nothing.
C12_AsStated ==
  [][\A u \in Members :
       (HandleUndo(u) /\ mounted = {u}) =>
         IF undoStack[u] = <<>>
           THEN UNCHANGED <<pixels, pending, undoStack>>
           ELSE /\ pixels'[u] = LastOf(bases[u]).base
                /\ undoStack'[u] = SubSeq(undoStack[u], 1, Len(undoStack[u]) - 1)]_vars

\* C12 (amended): when the subscription delivered no snapshot to the device
\* since the stroke began, an undo returns the device's grid to its state
\* before the stroke it undoes and pops that stroke's snapshot; by induction
\* k undos after n strokes return the grid to the state before the last k
\* strokes. An undo on an empty stack, which is what is left after
\* UNDO_KEEP + 1 undos of more strokes, changes nothing.
C12_UndoRestores ==
  [][\A u \in Members :
       HandleUndo(u) =>
         IF undoStack[u] = <<>>
           THEN UNCHANGED <<pixels, pending, undoStack>>
           ELSE /\ undoStack'[u] = SubSeq(undoStack[u], 1, Len(undoStack[u]) - 1)
                /\ LastOf(bases[u]).clean => pixels'[u] = LastOf(bases[u]).base]_vars

\* UNDO_KEEP + 2 strokes, the first painting (0,0) red, then UNDO_KEEP + 1
\* undos with nothing delivered or stored meanwhile: the stack is empty and
\* the grid is the one the first stroke left.
C12_Witness ==
  /\ nTouches = UNDO_KEEP + 2 /\ nUndos = UNDO_KEEP + 1 /\ ~inStroke["A"]
  /\ undoStack["A"] = <<>>
  /\ pixels["A"] = (<<0, 0>> :> "red")
  /\ remotePixels = <<>> /\ inbox["A"] = << <<>> >>

\* C13: a flush write that lands sets exactly the cells of its own batch
\* and leaves every other cell of the remote pixel map as it was, so when
\* the two partners paint different cells within one debounce window the
\* map holds both edits once both writes have landed, in either order.
C13_FlushesMerge ==
  [][\A u \in Members :
       WriteLand(u) =>
         LET batch == Head(inflight[u])
         IN /\ \A k \in DOMAIN batch : Get(remotePixels', k) = batch[k]
            /\ \A k \in Cells \ DOMAIN batch :
                 Get(remotePixels', k) = Get(remotePixels, k)]_vars

\* Each partner tapped one cell, A (0,0) and B (1,0), and both writes have
\* landed: the remote map holds both inks.
C13_Witness ==
  /\ remotePixels = (<<0, 0>> :> "red" @@ <<1, 0>> :> "blue")
  /\ Len(undoStack["A"]) = 1 /\ Len(undoStack["B"]) = 1
  /\ \A u \in Members : inflight[u] = <<>> /\ pending[u] = <<>>

\* ------------------------------------------------------------- clear
\* C14: when the write of a confirmed Clear lands, the remote pixel map is
\* empty; when clearCanvas has completed and onPress resumes, that device's
\* undo stack is empty, so that an undo pressed next changes nothing.
C14_ClearEmpties ==
  /\ [][\A u \in Members : ClearLand(u) => remotePixels' = <<>>]_vars
  /\ [][\A u \in Members :
         (clear[u] = "landed" /\ clear'[u] = "idle") => undoStack'[u] = <<>>]_vars
  /\ [][\A u \in Members :
         (HandleUndo(u) /\ undoStack[u] = <<>>) =>
           UNCHANGED <<pixels, pending, flushTimer, timers, undoStack, remotePixels>>]_vars

\* One stroke painted (0,0) and was stored, then Clear was confirmed and has
\* completed, nothing being delivered or undone since the stroke: the remote map
\* is empty and the stroke's snapshot is gone from the undo stack.
C14_Witness ==
  /\ nClears = 1 /\ clear["A"] = "idle" /\ nUndos = 0 /\ nTouches = 1
  /\ ~inStroke["A"] /\ pixels["A"] = (<<0, 0>> :> "red")
  /\ remotePixels = <<>> /\ undoStack["A"] = <<>>
  /\ inbox["A"] = << (<<0, 0>> :> "red"), <<>> >>

\* ---------------------------------------------------------- activity
\* C15: every flushed batch comes with an overwrite of
\* liveCanvas/{pairId}/lastActivity by the acting user's id and the time:
\* once a device's writes are over and the store holds pixels that only
\* flushes can have put there, the marker has been written.
C15_FlushMarksActivity ==
  (/\ remotePixels # <<>>
   /\ \A u \in Members : inflight[u] = <<>> /\ pending[u] = <<>>)
    => lastActivity # None

\* ------------------------------------------------------------ delete
\* C16: deleteMessage removes exactly the history record with the given id:
\* every other record stays as it was, and so does the latest projection,
\* also when the projection shows the deleted message.
C16_DeleteFrame ==
  [][\A id \in 1..MaxSends :
       DeleteMessage(id) =>
         /\ DOMAIN history' = DOMAIN history \ {id}
         /\ \A k \in DOMAIN history' : history'[k] = history[k]
         /\ latest' = latest]_vars

\* Two messages were sent; the one the projection shows has been deleted
\* and the other one is still in the history.
C16_Witness ==
  /\ AllSendsDone /\ ~sendFailed
  /\ Cardinality(DOMAIN history) = 1
  /\ \E m \in archive :
       /\ m.id \notin DOMAIN history
       /\ latest.timestamp = m.timestamp /\ latest.authorId = m.authorId
       /\ latest.content = m.content
       /\ \E k \in DOMAIN history : history[k] \in archive /\ history[k] # m

\* ------------------------------------------------------------ watcher
\* C17: the onPaired callback of one code-creation flow is invoked at most
\* once, whatever further snapshots are delivered and whether or not the
\* user creates a code again, and not before a joiner has consumed a code
\* of that user, that is, written a pair record naming the user as creator.
C17_OnPairedOnce ==
  \A u \in Users : \A i \in DOMAIN watch[u] :
    /\ watch[u][i].fired <= 1
    /\ watch[u][i].fired > 0 => \E p \in DOMAIN pairs : pairs[p].user1 = u

\* ------------------------------------------------------- pair record
\* C18: a pair record is written once and immutable afterwards: no step,
\* a replayed or second joinWithCode included, removes a record of pairs or
\* changes one of its fields.
C18_PairImmutable ==
  [][\A p \in DOMAIN pairs : p \in DOMAIN pairs' /\ pairs'[p] = pairs[p]]_vars

\* ------------------------------------------------------------ replay
\* The device's last joinWithCode was interrupted and raw is the code it
\* was called with.
Replays(u, raw) == result[u].status = "interrupted" /\ ToUpperCase(raw) = join[u].key

\* C19: when a joiner whose joinWithCode was interrupted calls it again with
\* the same code, the call fails with CodeNotFound if the code is gone, and
\* otherwise (the code still being the same creator's) it goes on to the
\* same pair id; when it returns, it returns that pair id with every write
\* of joinWithCode done.
C19_ReplayResumes ==
  /\ [][\A u \in Users, raw \in RawCodes :
         (JoinRead(u, raw) /\ Replays(u, raw)) =>
           IF pairCodes[join[u].key] = NoCode
             THEN result'[u].status = "CodeNotFound"
             ELSE pairCodes[join[u].key].userId = join[u].creator =>
                    /\ result'[u].status = "pending"
                    /\ PairIdOf(join'[u].creator, u) = PairIdOf(join[u].creator, u)]_vars
  /\ [][\A u \in Users :
         JoinLocal(u) =>
           /\ result'[u] = [status |-> "ok", pairId |-> PairIdOf(join[u].creator, u)]
           /\ JoinPost(u)']_vars

\* A joiner's call was interrupted after the pair record was written (the
\* replay read a later time than the record held), the same joiner called
\* again and the call returned with all writes done.
C19_Witness ==
  \E u \in Users :
    /\ JoinedOk(u) /\ JoinPost(u)
    /\ join[u].createdAt = 2 /\ pairs[result[u].pairId].createdAt = 2

\* --------------------------------------------------------- stale code
\* C20: when createPairCode returns, the code it wrote is the only live
\* PairCode record whose creator is the calling user.
C20_NoStaleCode ==
  [][\A u \in Users, code \in Codes :
       CreatePairCode(u, code) =>
         \A c \in CodeKeys : pairCodes'[c].userId = u => c = code]_vars


\* ------------------------------------------------------ C21
\* C21 as stated: a rejected sendMessage shows the user an alert, and a
\* rejected nudge, a rejected mood update and a rejected canvas flush show
\* the user nothing.
C21_AsStated ==
  /\ [][SendFail("A") => "Send failed" \in alerts'["A"]]_vars
  /\ [][(NudgeFail("A") \/ MoodFail("A") \/ WriteFail("A")) => alerts' = alerts]_vars

\* C21, amended: a rejected sendMessage shows 'Send failed' and a rejected
\* nudge shows 'Could not send'; a rejected mood update and a rejected
\* canvas flush show nothing, and none of the four changes the pixels, the
\* moods or the notes the device shows.
C21_ErrorPolicy ==
  /\ [][SendFail("A") => "Send failed" \in alerts'["A"]]_vars
  /\ [][NudgeFail("A") => "Could not send" \in alerts'["A"]]_vars
  /\ [][(MoodFail("A") \/ WriteFail("A")) => alerts' = alerts]_vars
  /\ [][alerts' # alerts => UNCHANGED <<pixels, myMood, widgetCache>>]_vars

\* Each of the four writes has been rejected once: both alerts are up, with
\* no call pending, nothing stored and the tapped cell still painted.
C21_Witness ==
  /\ alerts["A"] = {"Send failed", "Could not send"}
  /\ ComposeIdle /\ HomeIdle /\ SayangIdle
  /\ history = <<>> /\ mood["A"] = None /\ ~nudgeSent["A"]
  /\ remotePixels = <<>> /\ pixels["A"] = (<<0, 0>> :> "red")

\* ------------------------------------------------------ C22
\* C22: the history is append-only with unique ids. A sendMessage whose
\* history write lands adds one record, the sender's, under a key that held
\* none; no step of a send removes or changes a record; and with no
\* deletes and no rejected write there are as many records as sends whose
\* history write has landed.
AwaitingHistory == {u \in Members : send[u].pc = "history"}
C22_AppendOnly ==
  /\ [][\A u \in Members : SendHistory(u) =>
          /\ send[u].key \notin DOMAIN history
          /\ DOMAIN history' = DOMAIN history \cup {send[u].key}
          /\ history'[send[u].key].authorId = u]_vars
  /\ [][\A k \in DOMAIN history : k \in DOMAIN history' /\ history'[k] = history[k]]_vars
  /\ [](\A k \in DOMAIN history : history[k].id = k)
  /\ [](~sendFailed =>
          Cardinality(DOMAIN history) = nextKey - Cardinality(AwaitingHistory))

\* Both partners sent at the same instant, both calls have returned, and
\* the history holds the two records.
C22_Witness ==
  /\ AllSendsDone /\ ~sendFailed /\ nextKey = 2
  /\ Cardinality(DOMAIN history) = 2
  /\ {history[k].authorId : k \in DOMAIN history} = Members
  /\ \A k \in DOMAIN history : history[k].timestamp = 0

\* ------------------------------------------------------ C23
\* C23: once every send has returned and each device's subscription has
\* handed it the current projection, the WidgetData cached on the sender's
\* and on the receiver's device both hold the projection's content, author
\* name, type and timestamp.
CacheMirrors(u) ==
  /\ widgetCache[u].message = latest.content
  /\ widgetCache[u].fromName = latest.authorName
  /\ widgetCache[u].type = latest.type
  /\ widgetCache[u].timestamp = latest.timestamp
C23_CacheMirrors ==
  (/\ AllSendsDone /\ ~sendFailed /\ latest # NoLatest
   /\ \A u \in Members : latestSeen[u] = latest)
    => \A u \in Members : CacheMirrors(u)

\* ------------------------------------------------------ C24
\* C24: publishing the widget snapshot is a no-op and never an error where
\* the widget surface is unavailable. On the other platform, with the
\* library missing or with its call rejecting, either helper returns
\* normally and leaves the widget as it was; so the last step of a
\* sendMessage whose two remote writes landed never fails the send: it
\* returns, the cache written, with no alert.
C24_WidgetNeverFails ==
  /\ [](\A os \in {"ios", "android", "web"}, bridge \in Bridges,
           data \in {widgetCache[u] : u \in Members}, u \in Members :
          /\ updateiOSWidget(os, bridge, data, widget[u]).outcome = "returns"
          /\ updateAndroidWidget(os, bridge, data, widget[u]).outcome = "returns"
          /\ (os # "ios" \/ bridge # "linked")
               => updateiOSWidget(os, bridge, data, widget[u]).shown = widget[u]
          /\ (os # "android" \/ bridge # "linked")
               => updateAndroidWidget(os, bridge, data, widget[u]).shown = widget[u])
  /\ [][\A u \in Members : SendCache(u) =>
          /\ sendFailed' = sendFailed /\ alerts' = alerts
          /\ send'[u].pc = "idle" /\ widgetCache'[u].timestamp = send[u].timestamp
          /\ widget'[u] \in {widget[u], widgetCache'[u]}]_vars

\* Both partners' sends have returned without an alert, A's (on iOS) with a
\* widget library that did not take the data and B's (on Android) with one
\* that did.
C24_Witness ==
  /\ AllSendsDone /\ ~sendFailed /\ \A u \in Members : alerts[u] = {}
  /\ widgetCache["A"] # NoWidgetData /\ widget["A"] = NoWidgetData
  /\ widgetCache["B"] # NoWidgetData /\ widget["B"] = widgetCache["B"]

\* ------------------------------------------------------ C25
\* C25: whenever the history subscription fires, the caller is handed every
\* record the history holds at that moment and nothing else, newest first
\* (of two consecutive records the first has the timestamp that is not
\* smaller), and the empty list when the pair has no history.
C25_NewestFirst ==
  [][HistoryDeliver("A") =>
       /\ Len(msgs'["A"]) = Cardinality(DOMAIN history)
       /\ {msgs'["A"][i] : i \in DOMAIN msgs'["A"]} = {history[k] : k \in DOMAIN history}
       /\ \A i \in 1..(Len(msgs'["A"]) - 1) :
            msgs'["A"][i].timestamp >= msgs'["A"][i + 1].timestamp
       /\ (history = <<>> => msgs'["A"] = <<>>)]_vars

\* The screen holds two records, the later one first, and the history has
\* since lost one of them.
C25_Witness ==
  /\ Len(msgs["A"]) = 2
  /\ msgs["A"][1].timestamp > msgs["A"][2].timestamp
  /\ msgs["A"][1].id > msgs["A"][2].id
  /\ Cardinality(DOMAIN history) = 1

\* ------------------------------------------------------ C26
\* C26: when the flush timer fires, the whole pending buffer goes out as
\* one write, appended to the writes in flight, and the buffer and the
\* timer handle are reset in that same step, before the write's outcome is
\* known; a change made while a write is in flight and no timer is armed
\* arms a timer and is held in the buffer alone, so no change is in a
\* batch and in the buffer at once.
C26_FlushCycle ==
  /\ [][\A u \in Members : (flushTimer[u] /\ ~flushTimer'[u]) =>
          /\ pending'[u] = <<>>
          /\ inflight'[u] = IF DOMAIN pending[u] # {} THEN Append(inflight[u], pending[u])
                                                     ELSE inflight[u]]_vars
  /\ [][\A u \in Members :
          (inflight[u] # <<>> /\ ~flushTimer[u] /\ pending'[u] # pending[u]) =>
            /\ flushTimer'[u] /\ DOMAIN pending'[u] # {}
            /\ inflight'[u] = inflight[u]]_vars
  /\ [](\A u \in Members : flushTimer[u] => DOMAIN pending[u] # {})

\* A's first tap is in flight, and its second tap, made since, waits in the
\* buffer with a fresh timer armed.
C26_Witness ==
  /\ inflight["A"] = << (<<0, 0>> :> "red") >>
  /\ pending["A"] = (<<1, 0>> :> "red")
  /\ flushTimer["A"]

\* ------------------------------------------------------ C27
\* C27: a device never has more than one flush timer set, and the timer set
\* is the one flushRef holds; its buffer holds changes only while the timer
\* is armed; every step that puts changes in the buffer leaves the timer
\* armed; and a change made while the timer is armed sets no second timer
\* and sends nothing.
C27_OneTimer ==
  /\ [](\A u \in Members : timers[u] = IF flushTimer[u] THEN 1 ELSE 0)
  /\ [](\A u \in Members : DOMAIN pending[u] # {} => flushTimer[u])
  /\ [][\A u \in Members :
          (pending'[u] # pending[u] /\ DOMAIN pending'[u] # {}) => flushTimer'[u]]_vars
  /\ [][\A u \in Members :
          (flushTimer[u] /\ pending'[u] # pending[u] /\ DOMAIN pending'[u] # {}) =>
            /\ timers'[u] = timers[u]
            /\ inflight'[u] = inflight[u]]_vars

\* A tapped two cells before the timer fired: both changes wait in the
\* buffer behind the one timer.
C27_Witness ==
  /\ pending["A"] = (<<0, 0>> :> "red") @@ (<<1, 0>> :> "red")
  /\ flushTimer["A"] /\ timers["A"] = 1
  /\ inflight["A"] = <<>>

\* ------------------------------------------------------ C28
\* C28: a rejected flush write is swallowed. The step in which it is
\* rejected raises no alert, leaves the device's pixels, undo stack, buffer
\* and timer as they were, and only drops the batch from the writes in
\* flight: the batch is not put back in the buffer, so no later flush
\* sends it again.
C28_FailedFlushDropped ==
  [][\A u \in Members : WriteFail(u) =>
       /\ alerts' = alerts
       /\ pixels' = pixels /\ undoStack' = undoStack
       /\ pending' = pending /\ flushTimer' = flushTimer /\ timers' = timers
       /\ remotePixels' = remotePixels /\ inbox' = inbox
       /\ inflight'[u] = Tail(inflight[u])]_vars

\* A's tap was flushed and the write rejected: nothing is buffered, armed
\* or in flight on either device, A still shows the cell and the store
\* never got it.
C28_Witness ==
  /\ pixels["A"] = (<<0, 0>> :> "red") /\ remotePixels = <<>>
  /\ \A u \in Members :
       /\ pending[u] = <<>> /\ ~flushTimer[u]
       /\ inflight[u] = <<>> /\ inbox[u] = <<>>
  /\ \A u \in Members : alerts[u] = {}

\* ------------------------------------------------------ C29
\* C29: every snapshot the pixel subscription delivers replaces the
\* device's pixels by exactly the delivered map, the empty map when the
\* store holds none; changes still waiting in the buffer are not laid over
\* it, and the buffer, its timer, the writes in flight and the undo stack
\* stay as they were.
C29_DeliveryReplaces ==
  [][\A u \in Members : Len(inbox'[u]) < Len(inbox[u]) =>
       /\ pixels'[u] = Head(inbox[u])
       /\ inbox'[u] = Tail(inbox[u])
       /\ pending' = pending /\ flushTimer' = flushTimer /\ inflight' = inflight
       /\ undoStack' = undoStack]_vars

\* A tapped a cell before the subscription's first snapshot, the empty
\* map, arrived: the cell is gone from A's screen while its change still
\* waits in the buffer and its pre-image on the undo stack.
C29_Witness ==
  /\ pixels["A"] = <<>> /\ inbox["A"] = <<>>
  /\ pending["A"] = (<<0, 0>> :> "red") /\ flushTimer["A"]
  /\ undoStack["A"] = << (<<0, 0>> :> None) >>

\* ------------------------------------------------------ C30
\* C30: undo is non-recursive and local. Pressed with a non-empty stack it
\* takes the newest snapshot off the stack, which gets one shorter and
\* keeps its other entries; every cell of the snapshot gets the snapshot's
\* value on the screen (None removing it) and in the buffer, behind an
\* armed timer; every other cell of the screen and of the buffer stays as
\* it was. Pressed with an empty stack it changes neither screen, buffer,
\* timer nor stack. Neither sends anything by itself.
C30_UndoLocal ==
  [][\A u \in Members : HandleUndo(u) =>
       /\ inflight' = inflight /\ remotePixels' = remotePixels
       /\ IF undoStack[u] = <<>>
            THEN /\ pixels' = pixels /\ pending' = pending
                 /\ flushTimer' = flushTimer /\ undoStack' = undoStack
            ELSE LET last == undoStack[u][Len(undoStack[u])]
                 IN /\ undoStack'[u] = SubSeq(undoStack[u], 1, Len(undoStack[u]) - 1)
                    /\ \A k \in DOMAIN last :
                         /\ Get(pixels'[u], k) = last[k]
                         /\ k \in DOMAIN pending'[u] /\ pending'[u][k] = last[k]
                    /\ \A k \in Cells \ DOMAIN last :
                         /\ Get(pixels'[u], k) = Get(pixels[u], k)
                         /\ (k \in DOMAIN pending'[u]) = (k \in DOMAIN pending[u])
                         /\ k \in DOMAIN pending[u] => pending'[u][k] = pending[u][k]
                    /\ flushTimer'[u]]_vars

\* A's tap was flushed and echoed back, and A has undone it: the cell is
\* off the screen, its removal waits in the buffer, the stack is empty and
\* the store still holds the cell.
C30_Witness ==
  /\ nUndos = 1 /\ undoStack["A"] = <<>>
  /\ pixels["A"] = <<>>
  /\ pending["A"] = (<<0, 0>> :> None) /\ flushTimer["A"]
  /\ remotePixels = (<<0, 0>> :> "red")

\* ------------------------------------------------------ C31
\* C31: the pair record precedes every pointer to it. In every state, in
\* the middle of a joinWithCode and after a crash at any of its steps
\* included, a pairId held by a user's remote record, by a device's local
\* storage or by its app context names a stored pair record of which that
\* user is a member.
PointsToOwnPair(u, p) ==
  p # None => (p \in DOMAIN pairs /\ u \in {pairs[p].user1, pairs[p].user2})
C31_RecordBeforePointers ==
  \A u \in Users :
    /\ PointsToOwnPair(u, users[u].pairId)
    /\ PointsToOwnPair(u, localPairId[u])
    /\ PointsToOwnPair(u, currentUser[u].pairId)

\* B's joinWithCode died after writing the creator's pointer: A's record
\* points to the pair, B's does not yet, and the pair record is there.
C31_Witness ==
  /\ users["A"].pairId = PairIdOf("A", "B")
  /\ users["B"].pairId = None /\ localPairId["B"] = None
  /\ join["B"].pc = "idle"
  /\ PairIdOf("A", "B") \in DOMAIN pairs

\* ------------------------------------------------------ C32
\* C32: no user ever belongs to two pairs. Every user is a member of at
\* most one stored pair record, and no step changes a remote pairId that
\* was set into the id of another pair.
PairsOf(u) == {p \in DOMAIN pairs : u \in {pairs[p].user1, pairs[p].user2}}
C32_OnePairPerUser ==
  /\ [](\A u \in Users : Cardinality(PairsOf(u)) <= 1)
  /\ [][(\E j \in Users : join'[j] # join[j]) =>
          \A u \in Users :
            users[u].pairId # None => users'[u].pairId = users[u].pairId]_vars

\* ------------------------------------------------------ C33
\* C33: entering or changing the display name changes only the name of the
\* remote user record. The remote write of getOrCreateUser leaves the
\* user's remote pairId, notification token and mood as they were just
\* before the write, whatever was written since the call read local storage.
C33_LoginChangesNameOnly ==
  [][\A u \in Users :
       (login[u].pc = "remote" /\ login'[u].pc = "idle") =>
         /\ users'[u].pairId = users[u].pairId
         /\ users'[u].fcmToken = users[u].fcmToken
         /\ (u \in DOMAIN mood => mood'[u] = mood[u])]_vars

\* ------------------------------------------------------ C34
\* C34: edits made before a clear do not come back. From a state in which
\* painted cells are buffered, the flush timer is armed and Clear has not
\* been pressed, every later state in which the clear was confirmed and has
\* landed, nobody has edited since, and no flush of that user is armed or in
\* flight has an empty remote pixel map.
EditsBuffered(u, k, j) ==
  /\ clear[u] = "idle" /\ nClears = 0
  /\ DOMAIN pending[u] # {} /\ flushTimer[u]
  /\ ~inStroke[u]
  /\ nTouches = k /\ nUndos = j
AllLanded(u, k, j) ==
  /\ nTouches = k /\ nUndos = j /\ ~inStroke[u]
  /\ clear[u] = "landed" /\ nClears = 1
  /\ inflight[u] = <<>> /\ ~flushTimer[u] /\ DOMAIN pending[u] = {}
C34_ClearedStaysCleared ==
  \A u \in {"A"}, k \in 0..MaxTouches, j \in 0..MaxClears :
    [](EditsBuffered(u, k, j) => [](AllLanded(u, k, j) => remotePixels = <<>>))

\* ------------------------------------------------------ C35
\* C35: no local canvas edit is dropped without a write attempt. Whenever a
\* cell's change is buffered on a device, a batch holding that cell is
\* eventually handed to updatePixels.
C35_EveryEditWritten ==
  \A u \in {"A"}, c \in TapCells :
    (c \in DOMAIN pending[u]) ~>
      (\E i \in DOMAIN inflight[u] : c \in DOMAIN inflight[u][i])

\* ------------------------------------------------------ C36
\* C36: canvas convergence. With every write succeeding, whenever both
\* users have stopped editing, no flush timer is armed, no write is in
\* flight and no push is undelivered, both users' pixel maps equal the
\* remote pixel map; and the remote map only ever changes by a landing
\* batch being laid over it, so that a cell both users painted holds the
\* value of the write that landed last.
Settled ==
  \A u \in Members :
    /\ ~inStroke[u] /\ ~flushTimer[u] /\ DOMAIN pending[u] = {}
    /\ inflight[u] = <<>> /\ inbox[u] = <<>>
C36_Convergence ==
  /\ [](Settled => \A u \in Members : pixels[u] = remotePixels)
  /\ [][remotePixels' # remotePixels =>
          \E u \in Members :
            /\ inflight[u] # <<>> /\ inflight'[u] = Tail(inflight[u])
            /\ remotePixels' = Merge(remotePixels, Head(inflight[u]))]_vars

\* Both users tapped the same cell, each with their own ink; everything has
\* landed and been delivered, and the cell holds B's ink everywhere.
C36_Witness ==
  /\ Settled
  /\ undoStack["A"] = << (<<0, 0>> :> None) >>
  /\ Len(undoStack["B"]) = 1 /\ <<0, 0>> \in DOMAIN undoStack["B"][1]
  /\ remotePixels = (<<0, 0>> :> "blue")
  /\ pixels["A"] = remotePixels /\ pixels["B"] = remotePixels

\* ------------------------------------------------------ C37
\* The flush timer of u fires in this step.
FlushStep(u) == flushTimer[u] /\ ~flushTimer'[u] /\ mounted' = mounted
\* Every buffered cell shows its buffered value on the device's screen.
Agree(u) == \A c \in DOMAIN pending[u] : Get(pixels[u], c) = pending[u][c]
\* The subscription callback of u does not run in this step.
NotDelivered(u) == Len(inbox'[u]) >= Len(inbox[u])

\* C37 as stated: the batch written at a flush, laid over the remote state
\* the user last saw, reproduces the user's local view; so at the flush
\* every cell of the batch has its batch value (None: no pixel) in the
\* local view.
C37_AsStated ==
  [][\A u \in Members : FlushStep(u) => Agree(u)]_vars

\* C37, amended: the batch written at a flush is the whole buffer, and the
\* buffer holds exactly the cells changed locally since the previous flush,
\* each with the value of its most recent local change (None for an erase
\* or an undo back to empty). Between flushes no cell leaves the buffer; a
\* cell enters it only as a cell of the tap or of the snapshot undone;
\* every entry that is new or changed, and every cell an edit changes on
\* the screen, is buffered with the value now on the screen. A buffered
\* cell keeps showing its value on the screen until a subscription push is
\* delivered: only a delivery, which replaces the local view and leaves
\* the buffer alone, makes the two differ.
C37_BatchContent ==
  /\ [][\A u \in Members : FlushStep(u) =>
          /\ inflight'[u] = Append(inflight[u], pending[u])
          /\ pending'[u] = <<>>]_vars
  /\ [][\A u \in Members : ~FlushStep(u) =>
          /\ DOMAIN pending[u] \subseteq DOMAIN pending'[u]
          /\ \A c \in DOMAIN pending'[u] \ DOMAIN pending[u] :
               \/ c = lastKey'[u]
               \/ /\ Len(undoStack'[u]) < Len(undoStack[u])
                  /\ c \in DOMAIN undoStack[u][Len(undoStack[u])]
          /\ \A c \in DOMAIN pending'[u] :
               (c \notin DOMAIN pending[u] \/ pending'[u][c] # pending[u][c])
                 => pending'[u][c] = Get(pixels'[u], c)
          /\ \A c \in Cells :
               (NotDelivered(u) /\ Get(pixels'[u], c) # Get(pixels[u], c))
                 => (c \in DOMAIN pending'[u] /\ pending'[u][c] = Get(pixels'[u], c))
          /\ (NotDelivered(u) /\ Agree(u)) => Agree(u)']_vars

\* A tapped a cell and undid the tap; the timer has fired and the batch in
\* flight maps the cell to None, the buffer being empty again.
C37_Witness ==
  /\ inflight["A"] = << (<<0, 0>> :> None) >>
  /\ pending["A"] = <<>> /\ ~flushTimer["A"]
  /\ nUndos = 1 /\ undoStack["A"] = <<>>
  /\ pixels["A"] = <<>>

\* ------------------------------------------------------ C38
\* C38: unsubscribing is isolated. Invoking the unsubscribe handle of one
\* subscribe call removes the callback of that call only, and every call
\* whose handle has not been invoked keeps its callback registered on the
\* path, so that it keeps being handed the pushes.
C38_UnsubscribeIsolated ==
  /\ [][\A i \in SubIds : (i \in handles /\ i \notin handles') =>
          listeners' = listeners \ {i}]_vars
  /\ [](handles \subseteq listeners)
====
